---- MODULE Spec2Model ----
(***************************************************************************)
(* Booking session state machine of the voice hotel-booking backend:       *)
(* backend/app/api/vapi.py (webhook tool handlers) over                    *)
(* backend/app/services/session_manager.py (Redis session store).          *)
(*                                                                         *)
(* Text values that the code inspects character by character (phone        *)
(* numbers, e-mail addresses, card numbers, CVVs, expiry fields,           *)
(* confirmation numbers) are sequences of one-character strings.  Other    *)
(* text values are plain strings.  A dict is a function whose domain is    *)
(* its key set, so dict.get(k) tests k \in DOMAIN d.                       *)
(*                                                                         *)
(* The handlers are coroutines on one event loop: a handler runs without   *)
(* interruption between two awaits (the Redis client is the blocking one), *)
(* so every action is the code between two awaits of one handler.          *)
(***************************************************************************)
EXTENDS Integers, Sequences, FiniteSets, TLC

VARIABLES
    now,        \* the clock, in seconds (time.time(), datetime.now())
    ticks,      \* number of clock advances so far
    today,      \* date.today(): [year, month]
    store,      \* Redis: session id -> [doc, expires_at]; the id booking_<t> is t
    inflight,   \* per worker slot, the handler suspended at an await
    log,        \* requests sent to the browser automation service, in order
    last        \* the response most recently returned to the voice platform

vars == <<now, ticks, today, store, inflight, log, last>>

----------------------------------------------------------------------------
(* Bounds of the model *)

MaxLog == 3
MaxTicks == 1

----------------------------------------------------------------------------
(* Characters and text helpers *)

Digits == {"0", "1", "2", "3", "4", "5", "6", "7", "8", "9"}

Lower == {"a", "b", "c", "d", "e", "f", "g", "h", "i", "j", "k", "l", "m",
          "n", "o", "p", "q", "r", "s", "t", "u", "v", "w", "x", "y", "z"}

Upper == {"A", "B", "C", "D", "E", "F", "G", "H", "I", "J", "K", "L", "M",
          "N", "O", "P", "Q", "R", "S", "T", "U", "V", "W", "X", "Y", "Z"}

Letters == Lower \cup Upper

\* str.replace(c, "") for every c in chars
Remove(s, chars) == SelectSeq(s, LAMBDA c : c \notin chars)

\* re.sub(r'\D', '', s)
DigitsOf(s) == SelectSeq(s, LAMBDA c : c \in Digits)

DigitVal(c) == CHOOSE n \in 0..9 : <<"0", "1", "2", "3", "4", "5", "6", "7", "8", "9">>[n + 1] = c

RECURSIVE DecimalValue(_)
DecimalValue(s) ==
    IF s = <<>> THEN 0
    ELSE 10 * DecimalValue(SubSeq(s, 1, Len(s) - 1)) + DigitVal(s[Len(s)])

\* str(n) for n >= 0, as in the f-string f"SF{n}"
RECURSIVE Decimal(_)
Decimal(n) ==
    IF n < 10 THEN << <<"0", "1", "2", "3", "4", "5", "6", "7", "8", "9">>[n + 1] >>
    ELSE Decimal(n \div 10) \o << <<"0", "1", "2", "3", "4", "5", "6", "7", "8", "9">>[(n % 10) + 1] >>

\* s[-4:]
LastFour(s) == IF Len(s) <= 4 THEN s ELSE SubSeq(s, Len(s) - 3, Len(s))

\* s.zfill(2) of a text without sign
ZFill2(s) == IF Len(s) >= 2 THEN s ELSE IF Len(s) = 1 THEN <<"0">> \o s ELSE <<"0", "0">>

\* A JSON value as the handler receives it: a string or a number.
JStr(s) == [t |-> "str", v |-> s]
JInt(n) == [t |-> "int", v |-> n]

\* Python truthiness of a JSON string or number
Truthy(j) == IF j.t = "int" THEN j.v # 0 ELSE j.v # <<>>

\* int(x) succeeds: a number, or a text of digits with an optional sign
\* (surrounding blanks are ignored by int())
IntText(s) ==
    LET b == Remove(s, {" "})
        d == IF b # <<>> /\ b[1] \in {"+", "-"} THEN Tail(b) ELSE b
    IN  d
IntParses(j) ==
    \/ j.t = "int"
    \/ /\ j.t = "str"
       /\ IntText(j.v) # <<>>
       /\ \A i \in 1..Len(IntText(j.v)) : IntText(j.v)[i] \in Digits
IntOf(j) ==
    IF j.t = "int" THEN j.v
    ELSE LET b == Remove(j.v, {" "})
         IN  IF b # <<>> /\ b[1] = "-" THEN 0 - DecimalValue(IntText(j.v))
             ELSE DecimalValue(IntText(j.v))

\* dict.update(u)
Merge(d, u) == [k \in (DOMAIN d) \cup (DOMAIN u) |-> IF k \in DOMAIN u THEN u[k] ELSE d[k]]

Min(S) == CHOOSE m \in S : \A n \in S : m <= n
Max(S) == CHOOSE m \in S : \A n \in S : m >= n

----------------------------------------------------------------------------
(* Session store: BookingSessionManager over Redis *)

\* timedelta(hours=24), in seconds
SessionTTL == 86400

\* range(3600) of the resolver loop
LookbackWindow == 3600

Put(st, id, e) == [k \in (DOMAIN st) \cup {id} |-> IF k = id THEN e ELSE st[k]]
Drop(st, id) == [k \in (DOMAIN st) \ {id} |-> st[k]]

\* a key is readable until Redis expires it
Live(st, t, id) == id \in DOMAIN st /\ t < st[id].expires_at

\* get_session: the stored document; callers test get_session_found first
get_session_found(st, t, id) == Live(st, t, id)
get_session(st, t, id) == st[id].doc

\* variant: an existing document is kept and the new fields are merged in
create_session_merging(st, t, id, initial_data, ok) ==
    IF ok
    THEN [result |-> TRUE,
          store |-> Put(st, id,
                        [doc |-> Merge(IF id \in DOMAIN st THEN st[id].doc ELSE <<>>,
                                       Merge([session_id |-> id, created_at |-> t, updated_at |-> t,
                                              status |-> "active", step |-> "initial"], initial_data)),
                         expires_at |-> t + SessionTTL])]
    ELSE [result |-> FALSE, store |-> st]

\* create_session: defaults overridden by initial_data, SETEX with 24 hours.
\* ok = FALSE is a Redis error, caught and turned into False.
create_session(st, t, id, initial_data, ok) ==
    IF ok
    THEN [result |-> TRUE,
          store |-> Put(st, id,
                        [doc |-> Merge([session_id |-> id, created_at |-> t, updated_at |-> t,
                                        status |-> "active", step |-> "initial"], initial_data),
                         expires_at |-> t + SessionTTL])]
    ELSE [result |-> FALSE, store |-> st]

\* variant: the document is replaced by the given fields
update_session_overwriting(st, t, id, updates, ok) ==
    IF ~get_session_found(st, t, id) \/ ~ok
    THEN [result |-> FALSE, store |-> st]
    ELSE [result |-> TRUE,
          store |-> Put(st, id,
                        [doc |-> Merge(updates, [updated_at |-> t]),
                         expires_at |-> t + SessionTTL])]

\* variant: a missing session is created from the given fields
update_session_upsert(st, t, id, updates, ok) ==
    IF ~ok
    THEN [result |-> FALSE, store |-> st]
    ELSE [result |-> TRUE,
          store |-> Put(st, id,
                        [doc |-> Merge(Merge(IF get_session_found(st, t, id)
                                             THEN get_session(st, t, id)
                                             ELSE [session_id |-> id],
                                             updates), [updated_at |-> t]),
                         expires_at |-> t + SessionTTL])]

\* variant: the document is written back with the time-to-live it had
update_session_keeping_ttl(st, t, id, updates, ok) ==
    IF ~get_session_found(st, t, id) \/ ~ok
    THEN [result |-> FALSE, store |-> st]
    ELSE [result |-> TRUE,
          store |-> Put(st, id,
                        [doc |-> Merge(Merge(get_session(st, t, id), updates), [updated_at |-> t]),
                         expires_at |-> st[id].expires_at])]

\* update_session: read, dict.update, refresh updated_at, SETEX with 24 hours
update_session(st, t, id, updates, ok) ==
    IF ~get_session_found(st, t, id) \/ ~ok
    THEN [result |-> FALSE, store |-> st]
    ELSE [result |-> TRUE,
          store |-> Put(st, id,
                        [doc |-> Merge(Merge(get_session(st, t, id), updates), [updated_at |-> t]),
                         expires_at |-> t + SessionTTL])]

\* delete_session: DEL returns the number of keys removed
delete_session(st, t, id) ==
    [result |-> Live(st, t, id), store |-> Drop(st, id)]

----------------------------------------------------------------------------
(* Caller phone extraction and the session resolver *)

\* payload.at says where the customer object sits in the webhook payload:
\* "call" (payload.call.customer), "top" (payload.customer) or "none".

\* handle_function_call: number passed to search_hotel, unchanged
extract_caller_phone(payload) ==
    IF payload.at \in {"call", "top"} THEN payload.number ELSE <<>>

\* book_hotel_1 / book_hotel_2: payload.call.customer.number with
\* "+", "-" and " " removed
normalized_caller_phone(payload) ==
    Remove(IF payload.at = "call" THEN payload.number ELSE <<>>, {"+", "-", " "})

\* variant: the probe takes any stored session, whoever its caller is
ProbeMatches_any_caller(st, t, id, caller_phone) ==
    get_session_found(st, t, id)

\* the probe of one candidate id booking_<t - i>
ProbeMatches(st, t, id, caller_phone) ==
    /\ get_session_found(st, t, id)
    /\ "caller_phone" \in DOMAIN get_session(st, t, id)
    /\ get_session(st, t, id).caller_phone = caller_phone

\* for i in range(3600): probe booking_<t - i>, break at the first match;
\* the loop as written, one probe per second of the window; <<>> is None
scan_first_match(st, t, caller_phone) ==
    IF caller_phone = <<>> THEN <<>>
    ELSE LET hits == {i \in 0..(LookbackWindow - 1) : ProbeMatches(st, t, t - i, caller_phone)}
         IN  IF hits = {} THEN <<>> ELSE << t - Min(hits) >>

\* variant: the scan runs upwards from the oldest second of the window
find_session_id_oldest(st, t, caller_phone) ==
    IF caller_phone = <<>> THEN <<>>
    ELSE LET hits == {id \in DOMAIN st : /\ t - id \in 0..(LookbackWindow - 1)
                                         /\ ProbeMatches(st, t, id, caller_phone)}
         IN  IF hits = {} THEN <<>> ELSE << Min(hits) >>

\* variant: the scan is not limited to the last hour
find_session_id_unbounded(st, t, caller_phone) ==
    IF caller_phone = <<>> THEN <<>>
    ELSE LET hits == {id \in DOMAIN st : /\ t - id >= 0
                                         /\ ProbeMatches(st, t, id, caller_phone)}
         IN  IF hits = {} THEN <<>> ELSE << Max(hits) >>

\* for i in range(3600): the first i whose candidate booking_<t - i> matches,
\* that is the greatest matching id in t - 3599 .. t; <<>> is None.
\* Only ids that are keys of the store can match, so only those are probed.
find_session_id(st, t, caller_phone) ==
    IF caller_phone = <<>> THEN <<>>
    ELSE LET hits == {id \in DOMAIN st : /\ t - id \in 0..(LookbackWindow - 1)
                                         /\ ProbeMatches(st, t, id, caller_phone)}
         IN  IF hits = {} THEN <<>> ELSE << Max(hits) >>

----------------------------------------------------------------------------
(* Search: room options built from the returned rates *)

\* get_room_name: mapped name, or "<code> Room"
get_room_name(room_code) ==
    CASE room_code = "PRDD" -> "Proper Double Room"
      [] room_code = "PRKG" -> "Proper King Room"
      [] room_code = "JSTE" -> "Junior Suite"
      [] room_code = "PSTE" -> "Proper Suite"
      [] room_code = "JS1DD" -> "Junior Suite with Double Beds"
      [] room_code = "JS1PK" -> "Junior Suite with King Bed"
      [] room_code = "PK1DD" -> "Proper King Room with Double Beds"
      [] room_code = "BUNK" -> "Bunk Room"
      [] OTHER -> room_code \o " Room"

\* variant: an empty rate list is not tested for
rates_missing_unchecked(rates) == FALSE

\* if not rates
rates_missing(rates) == rates = <<>>

\* variant: only the first two rates are offered
build_room_options_first_two(selected_rates) ==
    [i \in 1..(IF Len(selected_rates) < 2 THEN Len(selected_rates) ELSE 2) |->
        [choice_number |-> i,
         room_code |-> selected_rates[i].roomCode,
         room_name |-> get_room_name(selected_rates[i].roomCode),
         rate_package |-> selected_rates[i].description,
         price_before_tax |-> selected_rates[i].basePriceBeforeTax,
         total_with_fees |-> selected_rates[i].totalWithTaxesAndFees,
         rate_data |-> selected_rates[i]]]

\* room_options: one entry per rate, in order, choice_number i + 1
build_room_options(selected_rates) ==
    [i \in 1..Len(selected_rates) |->
        [choice_number |-> i,
         room_code |-> selected_rates[i].roomCode,
         room_name |-> get_room_name(selected_rates[i].roomCode),
         rate_package |-> selected_rates[i].description,
         price_before_tax |-> selected_rates[i].basePriceBeforeTax,
         total_with_fees |-> selected_rates[i].totalWithTaxesAndFees,
         rate_data |-> selected_rates[i]]]

\* session_data written by search_hotel
search_session_data(check_in_date, check_out_date, guests, occasion, selected_rates, caller_phone) ==
    [check_in_date |-> check_in_date,
     check_out_date |-> check_out_date,
     guests |-> guests,
     occasion |-> occasion,
     step |-> "search_completed",
     room_options |-> build_room_options(selected_rates),
     selected_rates |-> selected_rates,
     hotel |-> "sf-proper",
     caller_phone |-> caller_phone]

----------------------------------------------------------------------------
(* Select room: choice validation *)

\* int(parameters.get("room_choice", 1)): absent gives 1
RoomChoiceParses(room_choice) == room_choice.t = "absent" \/ IntParses(room_choice)
RoomChoiceOf(room_choice) == IF room_choice.t = "absent" THEN 1 ELSE IntOf(room_choice)

\* session_data.get("room_options", [])
room_options_of(session_data) ==
    IF "room_options" \in DOMAIN session_data THEN session_data.room_options ELSE <<>>

\* if room_choice not in [1, 2]
room_choice_allowed(room_choice) == room_choice \in {1, 2}

\* variant: falls back to the first option when no entry has the number
find_selected_room_or_first(room_options, room_choice) ==
    LET hits == {i \in 1..Len(room_options) : room_options[i].choice_number = room_choice}
    IN  IF hits = {} THEN << room_options[1] >> ELSE << room_options[Min(hits)] >>

\* variant: room_choice taken as a zero-based list index
find_selected_room_off_by_one(room_options, room_choice) ==
    IF room_choice + 1 \in 1..Len(room_options) THEN << room_options[room_choice + 1] >> ELSE <<>>

\* first room whose choice_number equals room_choice; <<>> is None
find_selected_room(room_options, room_choice) ==
    LET hits == {i \in 1..Len(room_options) : room_options[i].choice_number = room_choice}
    IN  IF hits = {} THEN <<>> ELSE << room_options[Min(hits)] >>

\* variant: the options are narrowed to the selected room
room_selection_updates_narrowing(room_choice, selected_room) ==
    [step |-> "room_selected", room_choice |-> room_choice, selected_room |-> selected_room,
     room_options |-> << selected_room >>]

\* the session update of book_hotel_1
room_selection_updates(room_choice, selected_room) ==
    [step |-> "room_selected", room_choice |-> room_choice, selected_room |-> selected_room]

----------------------------------------------------------------------------
(* Complete booking: guest and payment checks *)

\* re.match(r'^[a-zA-Z0-9._%+-]+@[a-zA-Z0-9.-]+\.[a-zA-Z]{2,}$', email)
EmailLocalChars == Letters \cup Digits \cup {".", "_", "%", "+", "-"}
EmailDomainChars == Letters \cup Digits \cup {".", "-"}
email_matches(email) ==
    \E at \in 1..Len(email), dot \in 1..Len(email) :
        /\ email[at] = "@"
        /\ email[dot] = "."
        /\ at >= 2
        /\ dot >= at + 2
        /\ Len(email) >= dot + 2
        /\ \A k \in 1..(at - 1) : email[k] \in EmailLocalChars
        /\ \A k \in (at + 1)..(dot - 1) : email[k] \in EmailDomainChars
        /\ \A k \in (dot + 1)..Len(email) : email[k] \in Letters

\* card_number = parameters.get("card_number", "").replace(" ", "").replace("-", "")
card_number_of(params) == Remove(params.card_number, {" ", "-"})

\* card_digits = re.sub(r'\D', '', card_number)
card_digits_of(params) == DigitsOf(card_number_of(params))

\* phone = session_data.get("caller_phone", parameters.get("phone", ""))
phone_of(session_data, params) ==
    IF "caller_phone" \in DOMAIN session_data THEN session_data.caller_phone ELSE params.phone

\* the friendly names of the guest fields that are falsy, in dict order
missing_guest_fields(params, phone) ==
    LET fields == << [name |-> "first name", present |-> params.first_name # ""],
                     [name |-> "last name", present |-> params.last_name # ""],
                     [name |-> "email address", present |-> params.email # <<>>],
                     [name |-> "phone number", present |-> phone # <<>>],
                     [name |-> "street address", present |-> params.address # ""],
                     [name |-> "zip code", present |-> params.zip_code # ""],
                     [name |-> "city", present |-> params.city # ""],
                     [name |-> "state", present |-> params.state # ""],
                     [name |-> "country", present |-> params.country # ""] >>
        missing == SelectSeq(fields, LAMBDA f : ~f.present)
    IN  [i \in 1..Len(missing) |-> missing[i].name]

\* the names of the payment fields that are falsy
missing_payment_fields(params) ==
    LET fields == << [name |-> "card number", present |-> card_number_of(params) # <<>>],
                     [name |-> "expiry month", present |-> Truthy(params.expiry_month)],
                     [name |-> "expiry year", present |-> Truthy(params.expiry_year)],
                     [name |-> "CVV", present |-> Truthy(params.cvv)],
                     [name |-> "cardholder name", present |-> params.cardholder_name # ""] >>
        missing == SelectSeq(fields, LAMBDA f : ~f.present)
    IN  [i \in 1..Len(missing) |-> missing[i].name]

\* variant: year and month compared one by one
card_expired_fieldwise(month, year, td) ==
    year < td.year \/ month < td.month

\* year < today.year or (year == today.year and month < today.month)
card_expired(month, year, td) ==
    year < td.year \/ (year = td.year /\ month < td.month)

MsgMissingGuest == "I still need your {guest fields}"
MsgMissingPayment == "I still need your {payment fields} to complete the booking."
MsgEmail == "Please provide a valid email address."
MsgPhone == "Please provide a valid phone number with at least 10 digits."
MsgCard == "Please provide a valid credit card number."
MsgMonth == "Please provide a valid expiry month (01-12)."
MsgExpired == "This card appears to be expired. Please provide a valid card."
MsgExpiryParse == "Please provide valid expiry month and year."
MsgCvv == "Please provide a valid CVV (3 or 4 digits)."
MsgSelectRoomFirst == "I need you to select a room first. Please start the booking process again."
MsgTrouble2 == "I'm having trouble completing your booking right now. Please try again in a moment, and don't worry - your information is secure."

ValidationMessages ==
    {MsgMissingGuest, MsgMissingPayment, MsgEmail, MsgPhone, MsgCard, MsgMonth,
     MsgExpired, MsgExpiryParse, MsgCvv}

\* variant: the checks without the email shape check
book_hotel_2_checks_without_email(params, phone, td) ==
    IF missing_guest_fields(params, phone) # <<>> THEN MsgMissingGuest
    ELSE IF missing_payment_fields(params) # <<>> THEN MsgMissingPayment
    ELSE IF Len(DigitsOf(phone)) < 10 THEN MsgPhone
    ELSE IF Len(card_digits_of(params)) < 13 \/ Len(card_digits_of(params)) > 19 THEN MsgCard
    ELSE IF ~IntParses(params.expiry_month) \/ ~IntParses(params.expiry_year) THEN MsgExpiryParse
    ELSE IF IntOf(params.expiry_month) < 1 \/ IntOf(params.expiry_month) > 12 THEN MsgMonth
    ELSE IF card_expired(IntOf(params.expiry_month), IntOf(params.expiry_year), td) THEN MsgExpired
    ELSE IF params.cvv.t # "str" THEN "raise"
    ELSE IF Len(DigitsOf(params.cvv.v)) < 3 \/ Len(DigitsOf(params.cvv.v)) > 4 THEN MsgCvv
    ELSE "pass"

\* variant: the card number is checked before the email and the phone
book_hotel_2_checks_card_first(params, phone, td) ==
    IF missing_guest_fields(params, phone) # <<>> THEN MsgMissingGuest
    ELSE IF missing_payment_fields(params) # <<>> THEN MsgMissingPayment
    ELSE IF Len(card_digits_of(params)) < 13 \/ Len(card_digits_of(params)) > 19 THEN MsgCard
    ELSE IF ~email_matches(params.email) THEN MsgEmail
    ELSE IF Len(DigitsOf(phone)) < 10 THEN MsgPhone
    ELSE IF ~IntParses(params.expiry_month) \/ ~IntParses(params.expiry_year) THEN MsgExpiryParse
    ELSE IF IntOf(params.expiry_month) < 1 \/ IntOf(params.expiry_month) > 12 THEN MsgMonth
    ELSE IF card_expired(IntOf(params.expiry_month), IntOf(params.expiry_year), td) THEN MsgExpired
    ELSE IF params.cvv.t # "str" THEN "raise"
    ELSE IF Len(DigitsOf(params.cvv.v)) < 3 \/ Len(DigitsOf(params.cvv.v)) > 4 THEN MsgCvv
    ELSE "pass"

\* The checks of book_hotel_2 in source order. The value is the message of
\* the first failing check, "raise" when a check itself raises (re.sub on a
\* CVV that is a number), "pass" when every check passes.
book_hotel_2_checks(params, phone, td) ==
    IF missing_guest_fields(params, phone) # <<>> THEN MsgMissingGuest
    ELSE IF missing_payment_fields(params) # <<>> THEN MsgMissingPayment
    ELSE IF ~email_matches(params.email) THEN MsgEmail
    ELSE IF Len(DigitsOf(phone)) < 10 THEN MsgPhone
    ELSE IF Len(card_digits_of(params)) < 13 \/ Len(card_digits_of(params)) > 19 THEN MsgCard
    ELSE IF ~IntParses(params.expiry_month) \/ ~IntParses(params.expiry_year) THEN MsgExpiryParse
    ELSE IF IntOf(params.expiry_month) < 1 \/ IntOf(params.expiry_month) > 12 THEN MsgMonth
    ELSE IF card_expired(IntOf(params.expiry_month), IntOf(params.expiry_year), td) THEN MsgExpired
    ELSE IF params.cvv.t # "str" THEN "raise"
    ELSE IF Len(DigitsOf(params.cvv.v)) < 3 \/ Len(DigitsOf(params.cvv.v)) > 4 THEN MsgCvv
    ELSE "pass"

\* automation_payload is built with expiry_month.zfill(2): a number has no zfill
automation_payload_raises(params) == params.expiry_month.t # "str"

\* confirmation_number = f"SF{random.randint(100000, 999999)}"
RandLow == 100000
RandHigh == 999999
mock_confirmation_number(r) == <<"S", "F">> \o Decimal(r)

\* if not confirmation_number: use the mock number
confirmation_or_mock(confirmation_number, r) ==
    IF confirmation_number = <<>> THEN mock_confirmation_number(r) ELSE confirmation_number

\* variant: the digits are stored without truncation
card_last_four_of_untruncated(card_digits) == card_digits

\* card_digits[-4:] if len(card_digits) >= 4 else "XXXX"
card_last_four_of(card_digits) ==
    IF Len(card_digits) >= 4 THEN LastFour(card_digits) ELSE <<"X", "X", "X", "X">>

\* final_session_updates of book_hotel_2
final_session_updates(params, phone, confirmation_number, t) ==
    [step |-> "booking_completed",
     status |-> "completed",
     confirmation_number |-> confirmation_number,
     guest_info |-> [first_name |-> params.first_name,
                     last_name |-> params.last_name,
                     email |-> params.email,
                     phone |-> phone,
                     address |-> params.address,
                     zip_code |-> params.zip_code,
                     city |-> params.city,
                     state |-> params.state,
                     country |-> params.country],
     payment_info |-> [cardholder_name |-> params.cardholder_name,
                       card_last_four |-> card_last_four_of(card_digits_of(params)),
                       expiry_month |-> ZFill2(params.expiry_month.v),
                       expiry_year |-> params.expiry_year],
     completed_at |-> t]

----------------------------------------------------------------------------
(* Dates of the search parameters *)

IsLeap(y) == (y % 4 = 0 /\ y % 100 # 0) \/ y % 400 = 0
DaysIn(m, y) ==
    IF m = 2 THEN (IF IsLeap(y) THEN 29 ELSE 28)
    ELSE IF m \in {4, 6, 9, 11} THEN 30 ELSE 31

AllDigits(s) == \A i \in 1..Len(s) : s[i] \in Digits

\* datetime.strptime(d, "%Y-%m-%d") succeeds
date_parses(d) ==
    \E a \in 1..Len(d), b \in 1..Len(d) :
        /\ a < b
        /\ d[a] = "-" /\ d[b] = "-"
        /\ LET y == SubSeq(d, 1, a - 1)
               m == SubSeq(d, a + 1, b - 1)
               dd == SubSeq(d, b + 1, Len(d))
           IN  /\ Len(y) = 4 /\ AllDigits(y)
               /\ Len(m) \in {1, 2} /\ AllDigits(m)
               /\ Len(dd) \in {1, 2} /\ AllDigits(dd)
               /\ DecimalValue(y) >= 1
               /\ DecimalValue(m) \in 1..12
               /\ DecimalValue(dd) >= 1
               /\ DecimalValue(dd) <= DaysIn(DecimalValue(m), DecimalValue(y))

----------------------------------------------------------------------------
(* Responses and worker slots *)

Idle == [pc |-> "idle"]

\* variant: a 500 answer carries an error text only, no spoken result
Response_error_only(kind, success, status_code, result, extra) ==
    Merge([kind |-> kind, success |-> success, status_code |-> status_code,
           result |-> IF status_code = 500 THEN "" ELSE result,
           session_id |-> <<>>, confirmation_number |-> <<>>], extra)

\* JSON answer of a tool invocation: the keys the voice platform acts on
Response(kind, success, status_code, result, extra) ==
    Merge([kind |-> kind, success |-> success, status_code |-> status_code, result |-> result,
           session_id |-> <<>>, confirmation_number |-> <<>>], extra)

NoExtra == [session_id |-> <<>>]

\* a request sent to the browser automation service; booking is the booking
\* session on whose behalf it is sent
AutomationCall(url, booking, sessionId, customerId, rate_data) ==
    [url |-> url, booking |-> booking, sessionId |-> sessionId, customerId |-> customerId,
     rateCode |-> rate_data.code, roomCode |-> rate_data.roomCode]

NoRate == [code |-> "", roomCode |-> ""]

\* session_data.get("browser_session_id") and ...("browser_customer_id")
browser_session_id_of(session_data) ==
    IF "browser_session_id" \in DOMAIN session_data THEN session_data.browser_session_id ELSE ""
browser_customer_id_of(session_data) ==
    IF "browser_customer_id" \in DOMAIN session_data THEN session_data.browser_customer_id ELSE ""

\* variant: the handles are not tested for
has_browser_session_unchecked(session_data) == TRUE

\* if browser_session_id and browser_customer_id
has_browser_session(session_data) ==
    browser_session_id_of(session_data) # "" /\ browser_customer_id_of(session_data) # ""

MsgNeedDates == "I need check-in and check-out dates to search for hotel rates."
MsgRatesTrouble == "I'm having trouble getting hotel rates right now. Please try again."
MsgNoRates == "I'm sorry, I couldn't find any available rates for San Francisco Proper Hotel for those dates."
MsgCreateFailed == "I'm having trouble starting your booking. Please try again."
MsgFound == "Perfect! I found {n} available options for your stay"
MsgNoSession1 == "I couldn't find your booking session. Please search for hotels first."
MsgNoOptions == "I couldn't find the room options. Please search for hotels again."
MsgChoose12 == "Please choose room 1 or room 2 from the search results."
MsgNoRoomDetails == "I couldn't find the room details. Please search for hotels again."
MsgSaveFailed == "I'm having trouble saving your room selection. Please try again."
MsgTrouble1 == "I'm having trouble selecting your room right now. Please try again in a moment."
MsgSelected == "Perfect! I've selected the {room}. Now I need your information to complete the booking."
MsgNoSession2 == "I need the booking session ID to continue. Please start the booking process again."
MsgConfirmed == "Excellent! Your reservation has been confirmed. Your confirmation number is {confirmation_number}."
MsgStartOver == "Absolutely! I've cleared your current booking. Let's start fresh"

----------------------------------------------------------------------------
(* search_hotel *)

\* handle_function_call + search_hotel up to "await azds_client.get_hotel_rates"
search_hotel_begin(w, payload, params) ==
    /\ inflight[w] = Idle
    /\ IF params.check_in_date = <<>> \/ params.check_out_date = <<>>
       THEN /\ last' = Response("search_hotel", FALSE, 200, MsgNeedDates, NoExtra)
            /\ UNCHANGED inflight
       ELSE IF ~date_parses(params.check_in_date) \/ ~date_parses(params.check_out_date)
       THEN /\ last' = Response("search_hotel", FALSE, 200, MsgRatesTrouble, NoExtra)
            /\ UNCHANGED inflight
       ELSE /\ inflight' = [inflight EXCEPT ![w] =
                               [pc |-> "search_rates", params |-> params,
                                caller_phone |-> extract_caller_phone(payload)]]
            /\ UNCHANGED last
    /\ UNCHANGED <<now, ticks, today, store, log>>

\* the rate provider answers; the session is created; up to the await of
\* POST /book/search
search_hotel_rates(w, answer, ok) ==
    /\ inflight[w].pc = "search_rates"
    /\ LET c == inflight[w]
           booking_session_id == now
           session_data == search_session_data(c.params.check_in_date, c.params.check_out_date,
                                               c.params.adults, c.params.occasion,
                                               answer.rates, c.caller_phone)
           created == create_session(store, now, booking_session_id, session_data, ok)
       IN  IF answer.kind = "error"
           THEN /\ last' = Response("search_hotel", FALSE, 200, MsgRatesTrouble, NoExtra)
                /\ inflight' = [inflight EXCEPT ![w] = Idle]
                /\ UNCHANGED <<store, log>>
           ELSE IF rates_missing(answer.rates)
           THEN /\ last' = Response("search_hotel", FALSE, 200, MsgNoRates, NoExtra)
                /\ inflight' = [inflight EXCEPT ![w] = Idle]
                /\ UNCHANGED <<store, log>>
           ELSE IF ~created.result
           THEN /\ last' = Response("search_hotel", FALSE, 200, MsgCreateFailed, NoExtra)
                /\ inflight' = [inflight EXCEPT ![w] = Idle]
                /\ UNCHANGED <<store, log>>
           ELSE /\ Len(log) < MaxLog
                /\ store' = created.store
                /\ log' = Append(log, AutomationCall("/book/search", booking_session_id, "", "", NoRate))
                /\ inflight' = [inflight EXCEPT ![w] =
                                   [pc |-> "search_browser",
                                    session_id |-> booking_session_id,
                                    room_options |-> session_data.room_options]]
                /\ UNCHANGED last
    /\ UNCHANGED <<now, ticks, today>>

\* variant: every answer of the automation service counts as a handshake
handshake_succeeded_any_answer(answer) == answer.kind = "response"

\* if browser_response.status_code == 200: if browser_data.get("success")
handshake_succeeded(answer) ==
    answer.kind = "response" /\ answer.status_code = 200 /\ answer.success

\* the automation service answers POST /book/search (or the call raises);
\* the handles are stored on success; the search result is returned
search_hotel_browser(w, answer, ok) ==
    /\ inflight[w].pc = "search_browser"
    /\ LET c == inflight[w]
           handshake == handshake_succeeded(answer)
           updated == update_session(store, now, c.session_id,
                                     [browser_session_id |-> answer.sessionId,
                                      browser_customer_id |-> answer.customerId], ok)
       IN  /\ store' = IF handshake THEN updated.store ELSE store
           /\ last' = Response("search_hotel", TRUE, 200, MsgFound,
                               [session_id |-> << c.session_id >>, room_options |-> c.room_options])
           /\ inflight' = [inflight EXCEPT ![w] = Idle]
    /\ UNCHANGED <<now, ticks, today, log>>

----------------------------------------------------------------------------
(* book_hotel_1: select room *)

\* book_hotel_1 up to its return or to the await of POST /book/start
book_hotel_1(w, payload, params, ok) ==
    /\ inflight[w] = Idle
    /\ LET caller_phone == normalized_caller_phone(payload)
           found == find_session_id(store, now, caller_phone)
           session_id == found[1]
           session_data == get_session(store, now, session_id)
           room_options == room_options_of(session_data)
           room_choice == RoomChoiceOf(params.room_choice)
           selected == find_selected_room(room_options, room_choice)
           selected_room == selected[1]
           updated == update_session(store, now, session_id,
                                     room_selection_updates(room_choice, selected_room), ok)
           Reject(status_code, result) ==
               /\ last' = Response("book_hotel_1", FALSE, status_code, result, NoExtra)
               /\ UNCHANGED <<store, log, inflight>>
       IN  IF ~RoomChoiceParses(params.room_choice) THEN Reject(500, MsgTrouble1)
           ELSE IF found = <<>> THEN Reject(400, MsgNoSession1)
           ELSE IF room_options = <<>> THEN Reject(400, MsgNoOptions)
           ELSE IF ~room_choice_allowed(room_choice) THEN Reject(400, MsgChoose12)
           ELSE IF selected = <<>> THEN Reject(400, MsgNoRoomDetails)
           ELSE IF ~updated.result THEN Reject(500, MsgSaveFailed)
           ELSE /\ store' = updated.store
                /\ IF has_browser_session(session_data)
                   THEN /\ Len(log) < MaxLog
                        /\ log' = Append(log, AutomationCall("/book/start", session_id,
                                                             browser_session_id_of(session_data),
                                                             browser_customer_id_of(session_data),
                                                             selected_room.rate_data))
                        /\ inflight' = [inflight EXCEPT ![w] =
                                           [pc |-> "select_start",
                                            session_id |-> session_id,
                                            selected_room |-> selected_room]]
                        /\ UNCHANGED last
                   ELSE /\ last' = Response("book_hotel_1", TRUE, 200, MsgSelected,
                                            [session_id |-> << session_id >>,
                                             selected_room |-> selected_room])
                        /\ UNCHANGED <<log, inflight>>
    /\ UNCHANGED <<now, ticks, today>>

\* variant: the selected room is saved once more after the await
book_hotel_1_start_saving_room(w, answer) ==
    /\ inflight[w].pc = "select_start"
    /\ LET c == inflight[w]
       IN  /\ last' = Response("book_hotel_1", TRUE, 200, MsgSelected,
                               [session_id |-> << c.session_id >>, selected_room |-> c.selected_room])
           /\ store' = update_session(store, now, c.session_id,
                                      [selected_room |-> c.selected_room], TRUE).store
    /\ inflight' = [inflight EXCEPT ![w] = Idle]
    /\ UNCHANGED <<now, ticks, today, log>>

\* variant: a call that raised is tried again until it is answered
book_hotel_1_start_retrying(w, answer) ==
    /\ inflight[w].pc = "select_start"
    /\ IF answer.kind = "exception"
       THEN UNCHANGED <<last, inflight>>
       ELSE /\ last' = Response("book_hotel_1", TRUE, 200, MsgSelected,
                                [session_id |-> << inflight[w].session_id >>,
                                 selected_room |-> inflight[w].selected_room])
            /\ inflight' = [inflight EXCEPT ![w] = Idle]
    /\ UNCHANGED <<now, ticks, today, store, log>>

\* the automation service answers POST /book/start (or the call raises):
\* every outcome is logged only, and the selection is reported
book_hotel_1_start(w, answer) ==
    /\ inflight[w].pc = "select_start"
    /\ LET c == inflight[w]
       IN  last' = Response("book_hotel_1", TRUE, 200, MsgSelected,
                            [session_id |-> << c.session_id >>, selected_room |-> c.selected_room])
    /\ inflight' = [inflight EXCEPT ![w] = Idle]
    /\ UNCHANGED <<now, ticks, today, store, log>>

----------------------------------------------------------------------------
(* book_hotel_2: complete booking *)

\* variant: the room selection is not verified
has_selected_room_unchecked(session_data) == TRUE

\* if not session_data.get("selected_room")
has_selected_room(session_data) == "selected_room" \in DOMAIN session_data

\* session_data.get("selected_room", {}).get("rate_data", {})
rate_data_of(session_data) ==
    IF "selected_room" \in DOMAIN session_data THEN session_data.selected_room.rate_data ELSE NoRate

\* book_hotel_2 up to its return or to the await of POST /book/complete
\* (with browser handles) or POST /book/full (without)
book_hotel_2(w, payload, params) ==
    /\ inflight[w] = Idle
    /\ LET caller_phone == normalized_caller_phone(payload)
           found == find_session_id(store, now, caller_phone)
           session_id == found[1]
           session_data == get_session(store, now, session_id)
           phone == phone_of(session_data, params)
           verdict == book_hotel_2_checks(params, phone, today)
           rate_data == rate_data_of(session_data)
           Reject(status_code, result) ==
               /\ last' = Response("book_hotel_2", FALSE, status_code, result, NoExtra)
               /\ UNCHANGED <<log, inflight>>
       IN  IF found = <<>> THEN Reject(400, MsgNoSession2)
           ELSE IF ~has_selected_room(session_data) THEN Reject(400, MsgSelectRoomFirst)
           ELSE IF verdict = "raise" THEN Reject(500, MsgTrouble2)
           ELSE IF verdict # "pass" THEN Reject(400, verdict)
           ELSE IF automation_payload_raises(params) THEN Reject(500, MsgTrouble2)
           ELSE /\ Len(log) < MaxLog
                /\ log' = Append(log,
                            IF has_browser_session(session_data)
                            THEN AutomationCall("/book/complete", session_id,
                                                browser_session_id_of(session_data),
                                                browser_customer_id_of(session_data), rate_data)
                            ELSE AutomationCall("/book/full", session_id, "", "", rate_data))
                /\ inflight' = [inflight EXCEPT ![w] =
                                   [pc |-> "complete_call", params |-> params,
                                    session_id |-> session_id, phone |-> phone]]
                /\ UNCHANGED last
    /\ UNCHANGED <<now, ticks, today, store>>

\* confirmationNumber of the answer when status 200 and success, else None
confirmation_of(answer) ==
    IF answer.kind = "response" /\ answer.status_code = 200 /\ answer.success
    THEN answer.confirmationNumber ELSE <<>>

\* the automation service answers the booking call (or the call raises);
\* mock number if none, final session update, confirmation returned
book_hotel_2_finish(w, answer, r, ok) ==
    /\ inflight[w].pc = "complete_call"
    /\ LET c == inflight[w]
           confirmation_number == confirmation_or_mock(confirmation_of(answer), r)
           updated == update_session(store, now, c.session_id,
                                     final_session_updates(c.params, c.phone, confirmation_number, now), ok)
       IN  /\ store' = updated.store
           /\ last' = Response("book_hotel_2", TRUE, 200, MsgConfirmed,
                               [session_id |-> << c.session_id >>,
                                confirmation_number |-> confirmation_number])
    /\ inflight' = [inflight EXCEPT ![w] = Idle]
    /\ UNCHANGED <<now, ticks, today, log>>

----------------------------------------------------------------------------
(* start_over: reset *)

\* "session_cleared": bool(session_id)
session_cleared_of(params, deleted) == params.session_id # <<>>

\* start_over: deletes the session named by parameters.session_id, if any;
\* params.session_id is <<>> when the parameter is absent. call_data is the
\* call object of the payload, which the handler does not read. ok = FALSE is
\* a Redis error: get_session and delete_session catch it and report a miss.
start_over(params, call_data, ok) ==
    /\ LET session_id == params.session_id[1]
           found == params.session_id # <<>> /\ ok /\ get_session_found(store, now, session_id)
           deleted == IF found THEN delete_session(store, now, session_id)
                      ELSE [result |-> FALSE, store |-> store]
       IN  /\ store' = deleted.store
           /\ last' = Response("start_over", TRUE, 200, MsgStartOver,
                               [session_cleared |-> session_cleared_of(params, deleted.result)])
    /\ UNCHANGED <<now, ticks, today, inflight, log>>

----------------------------------------------------------------------------
(* handle_function_call: other function names *)

MsgNone == ""

\* a function name that no branch of the dispatcher matches: a 400 answer
\* with an error text and no spoken result
unknown_function ==
    /\ last' = Response("unknown", FALSE, 400, MsgNone, NoExtra)
    /\ UNCHANGED <<now, ticks, today, store, inflight, log>>

----------------------------------------------------------------------------
(* The clock *)

\* time passes by d seconds; Redis drops the keys whose time-to-live is over
Tick(d) ==
    /\ ticks < MaxTicks
    /\ ticks' = ticks + 1
    /\ now' = now + d
    /\ store' = [id \in {k \in DOMAIN store : now + d < store[k].expires_at} |-> store[id]]
    /\ UNCHANGED <<today, inflight, log, last>>

----------------------------------------------------------------------------
(* Inputs *)

\* caller numbers as the voice platform delivers them
PlusPhone == <<"+", "1", "4", "1", "5", "5", "5", "5", "0", "1", "0", "0">>
PlainPhone == <<"1", "4", "1", "5", "5", "5", "5", "0", "1", "0", "0">>
ShortPhone == <<"5", "5", "5", "0", "1", "0", "0">>

Call(number) == [at |-> "call", number |-> number]
Top(number) == [at |-> "top", number |-> number]

GoodSearch ==
    [check_in_date |-> <<"2", "0", "2", "5", "-", "1", "2", "-", "2", "0">>,
     check_out_date |-> <<"2", "0", "2", "5", "-", "1", "2", "-", "2", "2">>,
     adults |-> 2, occasion |-> ""]
NoCheckOut == [GoodSearch EXCEPT !.check_out_date = <<>>]
BadCheckIn == [GoodSearch EXCEPT !.check_in_date = <<"2", "0", "2", "5", "-", "0", "2", "-", "3", "0">>]

Rate(code, roomCode, description, base, total) ==
    [code |-> code, roomCode |-> roomCode, description |-> description,
     basePriceBeforeTax |-> base, totalWithTaxesAndFees |-> total]

RateA == Rate("ADVNC", "PRKG", "Advance Purchase", 300, 745)
RateB == Rate("BAR", "JSTE", "Best Available Rate", 450, 1098)
RateC == Rate("BAR", "LOFT", "Best Available Rate", 600, 1460)

RatesError == [kind |-> "error", rates |-> <<>>]
Rates(rates) == [kind |-> "rates", rates |-> rates]

\* outcomes of a call to the automation service: the call raises (refused,
\* timeout, bad JSON) or answers
Raised == [kind |-> "exception", status_code |-> 0, success |-> FALSE,
           sessionId |-> "", customerId |-> "", confirmationNumber |-> <<>>]
Answered(status_code, success, sessionId, customerId, confirmationNumber) ==
    [kind |-> "response", status_code |-> status_code, success |-> success,
     sessionId |-> sessionId, customerId |-> customerId,
     confirmationNumber |-> confirmationNumber]

HotelConfirmation == <<"H", "X", "7">>

AbsentChoice == [t |-> "absent", v |-> 0]
Choice(c) == [room_choice |-> c]

GoodCard == <<"4", "1", "1", "1", " ", "1", "1", "1", "1", " ", "1", "1", "1", "1", " ", "1", "1", "1", "1">>

GoodBooking ==
    [first_name |-> "Ada", last_name |-> "Lovelace",
     email |-> <<"a", "d", "a", "@", "e", "x", "a", "m", "p", "l", "e", ".", "c", "o", "m">>,
     phone |-> <<>>,
     address |-> "1 Market St", zip_code |-> "94105", city |-> "San Francisco",
     state |-> "CA", country |-> "US",
     card_number |-> GoodCard,
     expiry_month |-> JStr(<<"6">>), expiry_year |-> JStr(<<"2", "0", "2", "6">>),
     cvv |-> JStr(<<"1", "2", "3">>),
     cardholder_name |-> "Ada Lovelace"]

NumericMonth == [GoodBooking EXCEPT !.expiry_month = JInt(6)]
BadEmail == [GoodBooking EXCEPT !.email = <<"n", "o", "t", "-", "a", "n", "-", "e", "m", "a", "i", "l">>]

BadBookings ==
    {[GoodBooking EXCEPT !.first_name = ""],
     [GoodBooking EXCEPT !.cvv = JStr(<<>>)],
     BadEmail,
     [GoodBooking EXCEPT !.card_number = <<"4", "1", "1", "1", "1", "1", "1", "1", "1", "1", "1", "1">>],
     [GoodBooking EXCEPT !.expiry_month = JStr(<<"1", "3">>)],
     [GoodBooking EXCEPT !.expiry_month = JStr(<<"J", "u", "n">>)],
     [GoodBooking EXCEPT !.expiry_month = JStr(<<"5">>)],
     [GoodBooking EXCEPT !.cvv = JStr(<<"1", "2">>)]}

NumericCvv == [GoodBooking EXCEPT !.cvv = JInt(123)]

Todays == {[year |-> 2026, month |-> 6]}

\* session ids a reset may name: none, or the id of any second so far
ResetParams == {[session_id |-> <<>>]} \cup {[session_id |-> <<id>>] : id \in (DOMAIN store) \cup {0}}

----------------------------------------------------------------------------
(* Specification: the booking flow within one clock second, one tool        *)
(* invocation suspended at a time, resets in between                        *)

Slots == {1}

Payloads == {Call(PlusPhone), Call(PlainPhone), Top(PlainPhone)}
SearchParams == {GoodSearch, NoCheckOut, BadCheckIn}
RateAnswers == {RatesError, Rates(<<>>), Rates(<<RateA>>), Rates(<<RateA, RateB, RateC>>)}
SearchAnswers ==
    {Raised, Answered(500, FALSE, "", "", <<>>), Answered(200, FALSE, "", "", <<>>),
     Answered(200, TRUE, "bs1", "cu1", <<>>)}
StartAnswers ==
    {Raised, Answered(500, FALSE, "", "", <<>>), Answered(200, FALSE, "", "", <<>>),
     Answered(200, TRUE, "", "", <<>>)}
CompleteAnswers ==
    {Raised, Answered(500, FALSE, "", "", <<>>), Answered(200, FALSE, "", "", <<>>),
     Answered(200, TRUE, "", "", <<>>), Answered(200, TRUE, "", "", HotelConfirmation)}
RandInts == {RandLow, RandHigh}
SelectParams == {Choice(AbsentChoice), Choice(JInt(2)), Choice(JInt(3)), Choice(JStr(<<"t", "w", "o">>))}
BookingParams == {GoodBooking, NumericMonth, BadEmail}

\* Worker slots are interchangeable: a new invocation takes the first free one.
FreeSlot(w) == inflight[w] = Idle /\ \A v \in DOMAIN inflight : inflight[v] = Idle => w <= v

Init ==
    /\ now = 0
    /\ ticks = 0
    /\ today \in Todays
    /\ store = <<>>
    /\ inflight = [w \in Slots |-> Idle]
    /\ log = <<>>
    /\ last = [kind |-> "none"]

SearchBegin == \E w \in {v \in DOMAIN inflight : FreeSlot(v)}, payload \in Payloads, params \in SearchParams : search_hotel_begin(w, payload, params)
SearchRates == \E w \in DOMAIN inflight, answer \in RateAnswers, ok \in BOOLEAN : search_hotel_rates(w, answer, ok)
SearchBrowser == \E w \in DOMAIN inflight, answer \in SearchAnswers, ok \in BOOLEAN : search_hotel_browser(w, answer, ok)
SelectRoom == \E w \in {v \in DOMAIN inflight : FreeSlot(v)}, payload \in Payloads, params \in SelectParams, ok \in BOOLEAN : book_hotel_1(w, payload, params, ok)
SelectRoomStart == \E w \in DOMAIN inflight, answer \in StartAnswers : book_hotel_1_start(w, answer)
CompleteBooking == \E w \in {v \in DOMAIN inflight : FreeSlot(v)}, payload \in Payloads, params \in BookingParams : book_hotel_2(w, payload, params)
CompleteBookingFinish == \E w \in DOMAIN inflight, answer \in CompleteAnswers, r \in RandInts, ok \in BOOLEAN : book_hotel_2_finish(w, answer, r, ok)
Reset == \E params \in ResetParams, payload \in Payloads, ok \in BOOLEAN : start_over(params, payload, ok)
UnknownFunction == unknown_function

Next ==
    \/ SearchBegin
    \/ SearchRates
    \/ SearchBrowser
    \/ SelectRoom
    \/ SelectRoomStart
    \/ CompleteBooking
    \/ CompleteBookingFinish
    \/ Reset
    \/ UnknownFunction

Spec == Init /\ [][Next]_vars

----------------------------------------------------------------------------
(* Specification: the booking flow of callers who get as far as dictating   *)
(* guest and payment data, with every kind of invalid data                  *)

ChkPayloads == {Call(PlainPhone), Call(ShortPhone)}
ChkSearchAnswers == {Raised, Answered(200, TRUE, "bs1", "cu1", <<>>)}
ChkCompleteAnswers == {Raised, Answered(200, TRUE, "", "", HotelConfirmation)}
ChkBookingParams == {GoodBooking, NumericCvv} \cup BadBookings

ChkSearchBegin == \E w \in {v \in DOMAIN inflight : FreeSlot(v)}, payload \in ChkPayloads : search_hotel_begin(w, payload, GoodSearch)
ChkSearchRates == \E w \in DOMAIN inflight : search_hotel_rates(w, Rates(<<RateA>>), TRUE)
ChkSearchBrowser == \E w \in DOMAIN inflight, answer \in ChkSearchAnswers : search_hotel_browser(w, answer, TRUE)
ChkSelectRoom == \E w \in {v \in DOMAIN inflight : FreeSlot(v)}, payload \in ChkPayloads : book_hotel_1(w, payload, Choice(JInt(1)), TRUE)
ChkSelectRoomStart == \E w \in DOMAIN inflight : book_hotel_1_start(w, Raised)
ChkCompleteBooking == \E w \in {v \in DOMAIN inflight : FreeSlot(v)}, payload \in ChkPayloads, params \in ChkBookingParams : book_hotel_2(w, payload, params)
ChkCompleteBookingFinish == \E w \in DOMAIN inflight, answer \in ChkCompleteAnswers : book_hotel_2_finish(w, answer, RandLow, TRUE)

NextChecks ==
    \/ ChkSearchBegin
    \/ ChkSearchRates
    \/ ChkSearchBrowser
    \/ ChkSelectRoom
    \/ ChkSelectRoomStart
    \/ ChkCompleteBooking
    \/ ChkCompleteBookingFinish

SpecChecks == Init /\ [][NextChecks]_vars

----------------------------------------------------------------------------
(* Specification: complete-booking with data that fail any set of checks at *)
(* once, and with expiry dates around the current month                     *)

\* the checks in the order of the source, numbered 1..8 (4 is the phone,
\* which comes from the caller's number)
ParamChecks == {1, 2, 3, 5, 6, 7, 8}

\* the booking data that fail exactly the checks in S (with today in 2026)
OrderBooking(S) ==
    [GoodBooking EXCEPT
        !.first_name = IF 1 \in S THEN "" ELSE "Ada",
        !.cardholder_name = IF 2 \in S THEN "" ELSE "Ada Lovelace",
        !.email = IF 3 \in S THEN BadEmail.email ELSE GoodBooking.email,
        !.card_number = IF 5 \in S
                        THEN <<"4", "1", "1", "1", "1", "1", "1", "1", "1", "1", "1", "1">>
                        ELSE GoodCard,
        !.expiry_month = IF 6 \in S THEN JStr(<<"1", "3">>) ELSE JStr(<<"1", "2">>),
        !.expiry_year = IF 7 \in S THEN JStr(<<"2", "0", "2", "5">>) ELSE JStr(<<"2", "0", "2", "7">>),
        !.cvv = IF 8 \in S THEN JStr(<<"1", "2">>) ELSE JStr(<<"1", "2", "3">>)]

\* data failing no check, one check, two checks, or all of them
OrderParams ==
    {OrderBooking(S) : S \in {T \in SUBSET ParamChecks : Cardinality(T) <= 2 \/ T = ParamChecks}}

ExpiryMonths ==
    {JStr(<<"1">>), JStr(<<"5">>), JStr(<<"0", "6">>), JStr(<<"7">>), JStr(<<"1", "2">>),
     JInt(6), JStr(<<"J", "u", "n">>)}
ExpiryYears ==
    {JStr(<<"2", "0", "2", "5">>), JStr(<<"2", "0", "2", "6">>), JStr(<<"2", "0", "2", "7">>),
     JInt(2026), JStr(<<"2", "0", "2", "x">>)}

\* valid booking data with every expiry month and year
ExpiryParams ==
    {[GoodBooking EXCEPT !.expiry_month = m, !.expiry_year = y] : m \in ExpiryMonths, y \in ExpiryYears}

PayPayloads == {Call(PlainPhone), Call(ShortPhone)}
PayTodays == {[year |-> 2026, month |-> 6], [year |-> 2026, month |-> 12]}

InitPay ==
    /\ now = 0
    /\ ticks = 0
    /\ today \in PayTodays
    /\ store = <<>>
    /\ inflight = [w \in Slots |-> Idle]
    /\ log = <<>>
    /\ last = [kind |-> "none"]

PaySearchBegin == \E w \in {v \in DOMAIN inflight : FreeSlot(v)}, payload \in PayPayloads : search_hotel_begin(w, payload, GoodSearch)
PaySearchRates == \E w \in DOMAIN inflight : search_hotel_rates(w, Rates(<<RateA>>), TRUE)
PaySearchBrowser == \E w \in DOMAIN inflight : search_hotel_browser(w, Raised, TRUE)
PaySelectRoom == \E w \in {v \in DOMAIN inflight : FreeSlot(v)}, payload \in PayPayloads : book_hotel_1(w, payload, Choice(JInt(1)), TRUE)
PayCompleteBooking == \E w \in {v \in DOMAIN inflight : FreeSlot(v)}, payload \in PayPayloads, params \in OrderParams : book_hotel_2(w, payload, params)
PayCompleteBookingFinish == \E w \in DOMAIN inflight : book_hotel_2_finish(w, Raised, RandLow, TRUE)

NextPay ==
    \/ PaySearchBegin
    \/ PaySearchRates
    \/ PaySearchBrowser
    \/ PaySelectRoom
    \/ PayCompleteBooking
    \/ PayCompleteBookingFinish

SpecPay == InitPay /\ [][NextPay]_vars

\* the same flow with valid data and every expiry date
ExpSearchBegin == \E w \in {v \in DOMAIN inflight : FreeSlot(v)} : search_hotel_begin(w, Call(PlainPhone), GoodSearch)
ExpSearchRates == \E w \in DOMAIN inflight : search_hotel_rates(w, Rates(<<RateA>>), TRUE)
ExpSearchBrowser == \E w \in DOMAIN inflight : search_hotel_browser(w, Raised, TRUE)
ExpSelectRoom == \E w \in {v \in DOMAIN inflight : FreeSlot(v)} : book_hotel_1(w, Call(PlainPhone), Choice(JInt(1)), TRUE)
ExpCompleteBooking == \E w \in {v \in DOMAIN inflight : FreeSlot(v)}, params \in ExpiryParams : book_hotel_2(w, Call(PlainPhone), params)
ExpCompleteBookingFinish == \E w \in DOMAIN inflight : book_hotel_2_finish(w, Raised, RandLow, TRUE)

NextExpiry ==
    \/ ExpSearchBegin
    \/ ExpSearchRates
    \/ ExpSearchBrowser
    \/ ExpSelectRoom
    \/ ExpCompleteBooking
    \/ ExpCompleteBookingFinish

SpecExpiry == InitPay /\ [][NextExpiry]_vars

----------------------------------------------------------------------------
(* Specification: a caller searching, selecting and booking while the clock  *)
(* advances by a second, by just under an hour and by an hour                *)

ClkPayloads == {Call(PlainPhone)}
ClkSelectParams == {Choice(JInt(1))}
ClockSteps == {1, 3599, 3600}

ClkSearchBegin == \E w \in {v \in DOMAIN inflight : FreeSlot(v)}, payload \in ClkPayloads : search_hotel_begin(w, payload, GoodSearch)
ClkSearchRates == \E w \in DOMAIN inflight : search_hotel_rates(w, Rates(<<RateA, RateB>>), TRUE)
ClkSearchBrowser == \E w \in DOMAIN inflight : search_hotel_browser(w, Raised, TRUE)
ClkSelectRoom == \E w \in {v \in DOMAIN inflight : FreeSlot(v)}, payload \in ClkPayloads, params \in ClkSelectParams : book_hotel_1(w, payload, params, TRUE)
ClkCompleteBooking == \E w \in {v \in DOMAIN inflight : FreeSlot(v)}, payload \in ClkPayloads : book_hotel_2(w, payload, GoodBooking)
ClkCompleteBookingFinish == \E w \in DOMAIN inflight : book_hotel_2_finish(w, Raised, RandLow, TRUE)
ClkTick == \E d \in ClockSteps : Tick(d)

NextClock ==
    \/ ClkSearchBegin
    \/ ClkSearchRates
    \/ ClkSearchBrowser
    \/ ClkSelectRoom
    \/ ClkCompleteBooking
    \/ ClkCompleteBookingFinish
    \/ ClkTick

SpecClock == Init /\ [][NextClock]_vars

----------------------------------------------------------------------------
(* Specification: two tool invocations of one caller in progress at a time, *)
(* each suspended at its await while the other runs                         *)

RaceSlots == {1, 2}

InitRace ==
    /\ now = 0
    /\ ticks = 0
    /\ today \in Todays
    /\ store = <<>>
    /\ inflight = [w \in RaceSlots |-> Idle]
    /\ log = <<>>
    /\ last = [kind |-> "none"]

RaceSearchAnswers == {Raised, Answered(200, TRUE, "bs1", "cu1", <<>>), Answered(200, TRUE, "bs2", "cu2", <<>>)}
RaceSelectParams == {Choice(JInt(1)), Choice(JInt(2))}

RaceSearchBegin == \E w \in {v \in DOMAIN inflight : FreeSlot(v)} : search_hotel_begin(w, Call(PlainPhone), GoodSearch)
RaceSearchRates == \E w \in DOMAIN inflight : search_hotel_rates(w, Rates(<<RateA, RateB>>), TRUE)
RaceSearchBrowser == \E w \in DOMAIN inflight, answer \in RaceSearchAnswers : search_hotel_browser(w, answer, TRUE)
RaceSelectRoom == \E w \in {v \in DOMAIN inflight : FreeSlot(v)}, params \in RaceSelectParams : book_hotel_1(w, Call(PlainPhone), params, TRUE)
RaceSelectRoomStart == \E w \in DOMAIN inflight : book_hotel_1_start(w, Raised)
RaceCompleteBooking == \E w \in {v \in DOMAIN inflight : FreeSlot(v)} : book_hotel_2(w, Call(PlainPhone), GoodBooking)
RaceCompleteBookingFinish == \E w \in DOMAIN inflight : book_hotel_2_finish(w, Answered(200, TRUE, "", "", HotelConfirmation), RandLow, TRUE)

NextRace ==
    \/ RaceSearchBegin
    \/ RaceSearchRates
    \/ RaceSearchBrowser
    \/ RaceSelectRoom
    \/ RaceSelectRoomStart
    \/ RaceCompleteBooking
    \/ RaceCompleteBookingFinish

SpecRace == InitRace /\ [][NextRace]_vars

----------------------------------------------------------------------------
(* Specification: two invocations at a time, whose awaited calls all come
   back in the end (answered, failed or timed out) *)

LiveRateAnswers == {Rates(<<RateA>>), RatesError}
LiveSearchAnswers == {Raised, Answered(200, TRUE, "bs1", "cu1", <<>>)}

LiveSearchBegin == \E w \in {v \in DOMAIN inflight : FreeSlot(v)} : search_hotel_begin(w, Call(PlainPhone), GoodSearch)
LiveSearchRates == \E w \in DOMAIN inflight, answer \in LiveRateAnswers : search_hotel_rates(w, answer, TRUE)
LiveSearchBrowser == \E w \in DOMAIN inflight, answer \in LiveSearchAnswers : search_hotel_browser(w, answer, TRUE)
LiveSelectRoom == \E w \in {v \in DOMAIN inflight : FreeSlot(v)} : book_hotel_1(w, Call(PlainPhone), Choice(JInt(1)), TRUE)
LiveSelectRoomStart == \E w \in DOMAIN inflight : book_hotel_1_start(w, Raised)
LiveCompleteBooking == \E w \in {v \in DOMAIN inflight : FreeSlot(v)} : book_hotel_2(w, Call(PlainPhone), GoodBooking)
LiveCompleteBookingFinish == \E w \in DOMAIN inflight : book_hotel_2_finish(w, Raised, RandLow, TRUE)

NextLive ==
    \/ LiveSearchBegin
    \/ LiveSearchRates
    \/ LiveSearchBrowser
    \/ LiveSelectRoom
    \/ LiveSelectRoomStart
    \/ LiveCompleteBooking
    \/ LiveCompleteBookingFinish

CallsComeBack ==
    \A w \in RaceSlots :
        /\ WF_vars(\E answer \in LiveRateAnswers : search_hotel_rates(w, answer, TRUE))
        /\ WF_vars(\E answer \in LiveSearchAnswers : search_hotel_browser(w, answer, TRUE))
        /\ WF_vars(book_hotel_1_start(w, Raised))
        /\ WF_vars(book_hotel_2_finish(w, Raised, RandLow, TRUE))

SpecLive == InitRace /\ [][NextLive]_vars /\ CallsComeBack

----------------------------------------------------------------------------
(* Specification: two callers and a call without caller number, whose       *)
(* sessions are created in different seconds and live side by side          *)

OtherPhone == <<"1", "4", "1", "5", "5", "5", "5", "0", "1", "9", "9">>
NoCustomer == [at |-> "none", number |-> <<>>]

CallerPayloads == {Call(PlainPhone), Call(OtherPhone), NoCustomer}

CallersSearchBegin == \E w \in {v \in DOMAIN inflight : FreeSlot(v)}, payload \in CallerPayloads : search_hotel_begin(w, payload, GoodSearch)
CallersSearchRates == \E w \in DOMAIN inflight : search_hotel_rates(w, Rates(<<RateA>>), TRUE)
CallersSearchBrowser == \E w \in DOMAIN inflight : search_hotel_browser(w, Raised, TRUE)
CallersSelectRoom == \E w \in {v \in DOMAIN inflight : FreeSlot(v)}, payload \in CallerPayloads : book_hotel_1(w, payload, Choice(JInt(1)), TRUE)
CallersCompleteBooking == \E w \in {v \in DOMAIN inflight : FreeSlot(v)}, payload \in CallerPayloads : book_hotel_2(w, payload, GoodBooking)
CallersCompleteBookingFinish == \E w \in DOMAIN inflight : book_hotel_2_finish(w, Raised, RandLow, TRUE)
CallersTick == Tick(1)

NextCallers ==
    \/ CallersSearchBegin
    \/ CallersSearchRates
    \/ CallersSearchBrowser
    \/ CallersSelectRoom
    \/ CallersCompleteBooking
    \/ CallersCompleteBookingFinish
    \/ CallersTick

SpecCallers == Init /\ [][NextCallers]_vars

----------------------------------------------------------------------------
(* Specification with the session lifetime: one caller, the handshake
   succeeds, and the clock moves by a second, by a second less than the
   lifetime, or by the lifetime *)

LifetimeSteps == {1, SessionTTL - 1, SessionTTL}

TtlSearchBegin == \E w \in {v \in DOMAIN inflight : FreeSlot(v)} : search_hotel_begin(w, Call(PlainPhone), GoodSearch)
TtlSearchRates == \E w \in DOMAIN inflight : search_hotel_rates(w, Rates(<<RateA, RateB>>), TRUE)
TtlSearchBrowser == \E w \in DOMAIN inflight : search_hotel_browser(w, Answered(200, TRUE, "bs1", "cu1", <<>>), TRUE)
TtlSelectRoom == \E w \in {v \in DOMAIN inflight : FreeSlot(v)}, params \in RaceSelectParams : book_hotel_1(w, Call(PlainPhone), params, TRUE)
TtlSelectRoomStart == \E w \in DOMAIN inflight : book_hotel_1_start(w, Raised)
TtlReset == \E params \in ResetParams : start_over(params, Call(PlainPhone), TRUE)
TtlTick == \E d \in LifetimeSteps : Tick(d)

NextTtl ==
    \/ TtlSearchBegin
    \/ TtlSearchRates
    \/ TtlSearchBrowser
    \/ TtlSelectRoom
    \/ TtlSelectRoomStart
    \/ TtlReset
    \/ TtlTick

SpecTtl == Init /\ [][NextTtl]_vars

----------------------------------------------------------------------------
(* Properties of the booking flow *)

StepRank(step) ==
    CASE step = "search_completed" -> 1
      [] step = "room_selected" -> 2
      [] step = "booking_completed" -> 3
      [] OTHER -> 0

\* the session the resolver gives the caller of this payload, if any
ResolvedFor(payload) == find_session_id(store, now, normalized_caller_phone(payload))
ResolvedDoc(payload) == get_session(store, now, ResolvedFor(payload)[1])

\* C1: the stored step of a session only moves forward along
\* search_completed -> room_selected -> booking_completed; apart from a
\* search writing a new session, every step of every handler leaves each
\* session's step where it was or further on, or deletes the session.
C1_StepNeverRegresses ==
    [][SearchRates \/
       \A id \in (DOMAIN store) \cap (DOMAIN store') :
           /\ store'[id].doc.step \in {"search_completed", "room_selected", "booking_completed"}
           /\ StepRank(store'[id].doc.step) >= StepRank(store[id].doc.step)]_vars

\* C2: booking_completed is terminal: once a session is in
\* booking_completed, no step of select-room or complete-booking changes its
\* step, selected_room, guest_info, payment_info or confirmation_number.
TerminalFields == {"step", "selected_room", "guest_info", "payment_info", "confirmation_number"}
C2_CompletedIsTerminal ==
    [][(SelectRoom \/ SelectRoomStart \/ CompleteBooking \/ CompleteBookingFinish) =>
       \A id \in (DOMAIN store) \cap (DOMAIN store') :
           store[id].doc.step = "booking_completed" =>
               \A f \in TerminalFields : store'[id].doc[f] = store[id].doc[f]]_vars

\* C3: the caller identifier stored by search is the normalized number, so
\* the caller who created a session (still inside the look-back window)
\* resolves a session when selecting a room or completing the booking.
C3_CallerResolvesOwnSession ==
    \A id \in DOMAIN store :
        (/\ Live(store, now, id)
         /\ now - id \in 0..(LookbackWindow - 1)
         /\ store[id].doc.caller_phone # <<>>)
        => /\ store[id].doc.caller_phone = Remove(store[id].doc.caller_phone, {"+", "-", " "})
           /\ ResolvedFor(Call(store[id].doc.caller_phone)) # <<>>

\* the choice is the choice_number of no entry of the resolved session
ChoiceNotOffered(payload, params) ==
    \/ ~RoomChoiceParses(params.room_choice)
    \/ \A i \in 1..Len(room_options_of(ResolvedDoc(payload))) :
           room_options_of(ResolvedDoc(payload))[i].choice_number # RoomChoiceOf(params.room_choice)

\* C4: a select-room invocation whose room_choice is the choice_number of no
\* entry of the resolved session's room_options leaves the store unchanged
\* and returns a non-success response.
C4_UnofferedChoiceRejected ==
    [][\A w \in DOMAIN inflight, payload \in Payloads, params \in SelectParams, ok \in BOOLEAN :
           (/\ ResolvedFor(payload) # <<>>
            /\ ChoiceNotOffered(payload, params)
            /\ book_hotel_1(w, payload, params, ok))
           => /\ store' = store
              /\ last'.kind = "book_hotel_1"
              /\ ~last'.success
              /\ last'.status_code # 200]_vars

\* a select-room was rejected for a choice that is not offered, and the
\* session still waits for a selection
C4_Witness ==
    /\ last.kind = "book_hotel_1"
    /\ last.result = MsgNoRoomDetails
    /\ \E id \in DOMAIN store :
           /\ store[id].doc.step = "search_completed"
           /\ Len(store[id].doc.room_options) = 1
           /\ "selected_room" \notin DOMAIN store[id].doc

\* C5: for a resolved session with room options, select-room is accepted for
\* every room_choice that is the choice_number of an entry (3 and above
\* included) and rejected otherwise.
C5_OfferedChoiceAccepted ==
    [][\A w \in DOMAIN inflight, payload \in Payloads, params \in SelectParams :
           (/\ ResolvedFor(payload) # <<>>
            /\ room_options_of(ResolvedDoc(payload)) # <<>>
            /\ book_hotel_1(w, payload, params, TRUE))
           => IF ChoiceNotOffered(payload, params)
              THEN store' = store /\ ~last'.success
              ELSE /\ store'[ResolvedFor(payload)[1]].doc.step = "room_selected"
                   /\ store'[ResolvedFor(payload)[1]].doc.room_choice = RoomChoiceOf(params.room_choice)]_vars

\* C6: complete-booking on a resolved session without selected_room answers
\* "select a room first", whatever the fields, sends nothing to the
\* automation service and leaves the store unchanged.
C6_SelectRoomFirst ==
    [][\A w \in DOMAIN inflight, payload \in Payloads, params \in BookingParams :
           (/\ ResolvedFor(payload) # <<>>
            /\ "selected_room" \notin DOMAIN ResolvedDoc(payload)
            /\ book_hotel_2(w, payload, params))
           => /\ last'.kind = "book_hotel_2"
              /\ last'.result = MsgSelectRoomFirst
              /\ ~last'.success
              /\ log' = log
              /\ store' = store
              /\ inflight' = inflight]_vars

\* complete-booking was refused with "select a room first" on a session
\* that has room options but no selection
C6_Witness ==
    /\ last.kind = "book_hotel_2"
    /\ last.result = MsgSelectRoomFirst
    /\ \E id \in DOMAIN store :
           /\ store[id].doc.step = "search_completed"
           /\ "selected_room" \notin DOMAIN store[id].doc

\* C7: whenever a guest or payment check of complete-booking fails (missing
\* field, invalid email, short phone, bad card length, bad month, expired
\* card, bad CVV), nothing is sent to the automation service and the stored
\* session is unchanged.
C7_FailedCheckChangesNothing ==
    [][\A w \in DOMAIN inflight, payload \in ChkPayloads, params \in ChkBookingParams :
           (/\ ResolvedFor(payload) # <<>>
            /\ has_selected_room(ResolvedDoc(payload))
            /\ params \in BadBookings \/ Len(DigitsOf(ResolvedDoc(payload).caller_phone)) < 10
            /\ book_hotel_2(w, payload, params))
           => /\ log' = log
              /\ store' = store
              /\ inflight' = inflight
              /\ last'.kind = "book_hotel_2"
              /\ ~last'.success
              /\ last'.result \in ValidationMessages]_vars

\* a booking with an invalid email was refused: the session is still in
\* room_selected and no booking request was sent
C7_Witness ==
    /\ last.kind = "book_hotel_2"
    /\ last.result = MsgEmail
    /\ \E id \in DOMAIN store : store[id].doc.step = "room_selected"
    /\ \A i \in 1..Len(log) : log[i].url \notin {"/book/complete", "/book/full"}

\* "SF" followed by a six-digit number in 100000..999999
IsMockConfirmation(c) ==
    /\ Len(c) = 8
    /\ c[1] = "S" /\ c[2] = "F"
    /\ \A i \in 3..8 : c[i] \in Digits
    /\ c[3] # "0"

\* C8: every complete-booking invocation that passes the checks returns a
\* non-empty confirmation number, which is "SF" and six digits when the
\* automation service gave none.
C8_ConfirmationAlwaysReturned ==
    [][/\ \A w \in DOMAIN inflight, payload \in Payloads, params \in BookingParams :
              (/\ ResolvedFor(payload) # <<>>
               /\ has_selected_room(ResolvedDoc(payload))
               /\ book_hotel_2_checks(params, phone_of(ResolvedDoc(payload), params), today) = "pass"
               /\ book_hotel_2(w, payload, params))
              => inflight'[w].pc = "complete_call"
       /\ \A w \in DOMAIN inflight, answer \in CompleteAnswers, r \in RandInts, ok \in BOOLEAN :
              book_hotel_2_finish(w, answer, r, ok)
              => /\ last'.success
                 /\ last'.confirmation_number # <<>>
                 /\ confirmation_of(answer) = <<>> => IsMockConfirmation(last'.confirmation_number)]_vars

\* C9: a confirmation number answered by the automation service is the one
\* returned and the one stored; after a successful complete-booking the
\* returned number equals the session's stored confirmation_number.
C9_ReturnedEqualsStored ==
    [][\A w \in DOMAIN inflight, answer \in CompleteAnswers, r \in RandInts, ok \in BOOLEAN :
           (book_hotel_2_finish(w, answer, r, ok) /\ last'.success)
           => /\ confirmation_of(answer) # <<>> => last'.confirmation_number = confirmation_of(answer)
              /\ inflight[w].session_id \in DOMAIN store'
              /\ "confirmation_number" \in DOMAIN store'[inflight[w].session_id].doc
              /\ store'[inflight[w].session_id].doc.confirmation_number = last'.confirmation_number]_vars

\* card numbers and CVVs the callers dictate
DictatedSecrets ==
    UNION {{p.card_number, card_number_of(p), card_digits_of(p)} : p \in BookingParams \cup BadBookings}
        \cup UNION {IF p.cvv.t = "str" THEN {p.cvv.v} ELSE {} : p \in BookingParams \cup BadBookings}

SessionKeys ==
    {"session_id", "created_at", "updated_at", "status", "step", "check_in_date", "check_out_date",
     "guests", "occasion", "room_options", "selected_rates", "hotel", "caller_phone",
     "browser_session_id", "browser_customer_id", "room_choice", "selected_room",
     "confirmation_number", "guest_info", "payment_info", "completed_at"}

\* C10: no stored session holds a full card number or a CVV: payment_info is
\* exactly cardholder name, last four digits and expiry month and year.
C10_NoCardDataStored ==
    \A id \in DOMAIN store :
        /\ DOMAIN store[id].doc \subseteq SessionKeys
        /\ "payment_info" \in DOMAIN store[id].doc =>
               /\ DOMAIN store[id].doc.payment_info =
                      {"cardholder_name", "card_last_four", "expiry_month", "expiry_year"}
               /\ Len(store[id].doc.payment_info.card_last_four) = 4
               /\ store[id].doc.payment_info.card_last_four \notin DictatedSecrets
               /\ store[id].doc.payment_info.expiry_month \notin DictatedSecrets
        /\ "guest_info" \in DOMAIN store[id].doc =>
               DOMAIN store[id].doc.guest_info =
                   {"first_name", "last_name", "email", "phone", "address", "zip_code",
                    "city", "state", "country"}

\* a completed booking is stored with the last four digits of the card
C10_Witness ==
    \E id \in DOMAIN store :
        /\ store[id].doc.step = "booking_completed"
        /\ store[id].doc.payment_info.card_last_four = <<"1", "1", "1", "1">>
        /\ store[id].doc.payment_info.cardholder_name = "Ada Lovelace"

----------------------------------------------------------------------------
(* Properties of search, room selection and reset *)

\* C11: a search creates a session only when the rate provider returned at
\* least one rate: with a date missing, with the rate provider failing or
\* with no rates returned, the store is unchanged, nothing is sent to the
\* automation service and a spoken apology is returned.
C11_NoRatesNoSession ==
    [][/\ \A w \in DOMAIN inflight, payload \in Payloads, params \in SearchParams :
              /\ (/\ store' # store \/ log' # log
                  /\ inflight[w] = Idle)
                 => ~search_hotel_begin(w, payload, params)
              /\ (/\ params.check_in_date = <<>> \/ params.check_out_date = <<>>
                  /\ search_hotel_begin(w, payload, params))
                 => /\ last'.kind = "search_hotel"
                    /\ ~last'.success
                    /\ last'.result = MsgNeedDates
                    /\ inflight' = inflight
       /\ \A w \in DOMAIN inflight, answer \in RateAnswers, ok \in BOOLEAN :
              search_hotel_rates(w, answer, ok)
              => /\ (answer.kind = "error" \/ Len(answer.rates) = 0)
                        => /\ store' = store
                           /\ log' = log
                           /\ last'.kind = "search_hotel"
                           /\ ~last'.success
                           /\ last'.result \in {MsgRatesTrouble, MsgNoRates}
                           /\ inflight'[w] = Idle
                 /\ store' # store => answer.kind = "rates" /\ Len(answer.rates) >= 1]_vars

\* the first search of a call found no rates: an apology, and no session
C11_Witness ==
    /\ last.kind = "search_hotel"
    /\ last.result = MsgNoRates
    /\ store = <<>>
    /\ log = <<>>

\* C12: a search for which the rate provider returns n >= 1 rates (and the
\* store accepts the write) creates the session booking_<now> with step
\* search_completed, the caller number of the call metadata, and
\* room_options of exactly n entries, the i-th built from the i-th rate with
\* choice_number i; no rate is left out.
C12_RoomOptionsPerRate ==
    [][\A w \in DOMAIN inflight, answer \in RateAnswers :
           (/\ answer.kind = "rates"
            /\ Len(answer.rates) >= 1
            /\ search_hotel_rates(w, answer, TRUE))
           => /\ now \in DOMAIN store'
              /\ store'[now].doc.session_id = now
              /\ store'[now].doc.step = "search_completed"
              /\ store'[now].doc.caller_phone = inflight[w].caller_phone
              /\ Len(store'[now].doc.room_options) = Len(answer.rates)
              /\ \A i \in 1..Len(answer.rates) :
                     /\ store'[now].doc.room_options[i].choice_number = i
                     /\ store'[now].doc.room_options[i].rate_data = answer.rates[i]
                     /\ store'[now].doc.room_options[i].room_code = answer.rates[i].roomCode
              /\ inflight'[w].room_options = store'[now].doc.room_options]_vars

\* a search that got three rates stored three room options, numbered 1..3
C12_Witness ==
    \E id \in DOMAIN store :
        /\ store[id].doc.step = "search_completed"
        /\ store[id].doc.selected_rates = <<RateA, RateB, RateC>>
        /\ Len(store[id].doc.room_options) = 3
        /\ store[id].doc.room_options[3].choice_number = 3

HasHandles(doc) == "browser_session_id" \in DOMAIN doc \/ "browser_customer_id" \in DOMAIN doc

\* C13: the automation handshake of search is best-effort: whatever the
\* automation service does, the search returns its result with the session
\* (if no reset removed it meanwhile) in search_completed; the two browser
\* handles are written only after a 200 answer with success = true, and
\* stay unset otherwise.
C13_HandshakeBestEffort ==
    [][\A w \in DOMAIN inflight, answer \in SearchAnswers, ok \in BOOLEAN :
           search_hotel_browser(w, answer, ok)
           => /\ last'.kind = "search_hotel"
              /\ last'.success
              /\ last'.result = MsgFound
              /\ last'.session_id = << inflight[w].session_id >>
              /\ inflight'[w] = Idle
              /\ log' = log
              /\ DOMAIN store' = DOMAIN store
              /\ inflight[w].session_id \in DOMAIN store =>
                     LET before == store[inflight[w].session_id].doc
                         after == store'[inflight[w].session_id].doc
                     IN  /\ after.step = "search_completed"
                         /\ after.room_options = before.room_options
                         /\ ~HasHandles(before)
                         /\ HasHandles(after) =>
                                /\ answer.kind = "response" /\ answer.status_code = 200 /\ answer.success
                                /\ after.browser_session_id = answer.sessionId
                                /\ after.browser_customer_id = answer.customerId
                         /\ ~(answer.kind = "response" /\ answer.status_code = 200 /\ answer.success)
                                => after = before]_vars

\* a search returned its options although the handshake gave no handles
C13_Witness ==
    /\ last.kind = "search_hotel"
    /\ last.success
    /\ last.session_id # <<>>
    /\ last.session_id[1] \in DOMAIN store
    /\ ~HasHandles(store[last.session_id[1]].doc)
    /\ store[last.session_id[1]].doc.step = "search_completed"
    /\ \E i \in 1..Len(log) : log[i].url = "/book/search" /\ log[i].booking = last.session_id[1]
    /\ \A w \in DOMAIN inflight : inflight[w] = Idle

\* C14: select-room notifies the automation service only when the session
\* it read holds both browser handles; the request is sent after the session
\* was updated to room_selected; and no outcome of the request changes the
\* success response or the stored session.
C14_SelectNotificationBestEffort ==
    [][/\ \A w \in DOMAIN inflight, payload \in Payloads, params \in SelectParams, ok \in BOOLEAN :
              (/\ log' # log
               /\ book_hotel_1(w, payload, params, ok))
              => /\ ResolvedFor(payload) # <<>>
                 /\ "browser_session_id" \in DOMAIN ResolvedDoc(payload)
                 /\ "browser_customer_id" \in DOMAIN ResolvedDoc(payload)
                 /\ ResolvedDoc(payload).browser_session_id # ""
                 /\ ResolvedDoc(payload).browser_customer_id # ""
                 /\ store'[ResolvedFor(payload)[1]].doc.step = "room_selected"
                 /\ Len(log') = Len(log) + 1
                 /\ log'[Len(log')].url = "/book/start"
                 /\ log'[Len(log')].sessionId = ResolvedDoc(payload).browser_session_id
                 /\ log'[Len(log')].customerId = ResolvedDoc(payload).browser_customer_id
                 /\ inflight'[w].pc = "select_start"
       /\ \A w \in DOMAIN inflight, answer \in StartAnswers :
              book_hotel_1_start(w, answer)
              => /\ store' = store
                 /\ log' = log
                 /\ last'.kind = "book_hotel_1"
                 /\ last'.success
                 /\ last'.status_code = 200
                 /\ last'.result = MsgSelected
                 /\ last'.session_id = << inflight[w].session_id >>
                 /\ last'.selected_room = inflight[w].selected_room]_vars

\* a room selection was reported after the automation service was notified
C14_Witness ==
    /\ last.kind = "book_hotel_1"
    /\ last.success
    /\ \E i \in 1..Len(log) : log[i].url = "/book/start" /\ << log[i].booking >> = last.session_id
    /\ \A w \in DOMAIN inflight : inflight[w] = Idle
    /\ \E id \in DOMAIN store : store[id].doc.step = "room_selected" /\ HasHandles(store[id].doc)

\* C15: a reset that carries no session id resolves the caller's session
\* from the caller's phone number and deletes it: after it, the resolver
\* finds no session for that caller.
C15_ResetByPhone ==
    [][\A params \in ResetParams, payload \in Payloads :
           (/\ params.session_id = <<>>
            /\ ResolvedFor(payload) # <<>>
            /\ start_over(params, payload, TRUE))
           => find_session_id(store', now', normalized_caller_phone(payload)) = <<>>]_vars

\* C16: reset always returns success = true, whether or not a session
\* existed and also when the store fails; its session_cleared flag is false
\* whenever no session existed to delete, also when the session id supplied
\* names no stored session.
C16_ResetFlag ==
    [][\A params \in ResetParams, payload \in Payloads, ok \in BOOLEAN :
           start_over(params, payload, ok)
           => /\ last'.kind = "start_over"
              /\ last'.success
              /\ (params.session_id = <<>> \/ ~Live(store, now, params.session_id[1]))
                     => ~last'.session_cleared]_vars

\* C17: a failing write to the session store is fatal for the request: when
\* create fails in search, update fails in select-room or the final update
\* fails in complete-booking, the answer is a non-success apology and the
\* step is not reported as completed.
C17_StoreFailureIsFatal ==
    [][/\ \A w \in DOMAIN inflight, answer \in RateAnswers :
              search_hotel_rates(w, answer, FALSE)
              => /\ last'.kind = "search_hotel"
                 /\ ~last'.success
                 /\ last'.session_id = <<>>
                 /\ store' = store
       /\ \A w \in DOMAIN inflight, payload \in Payloads, params \in SelectParams :
              book_hotel_1(w, payload, params, FALSE)
              => /\ last'.kind = "book_hotel_1"
                 /\ ~last'.success
                 /\ last'.session_id = <<>>
                 /\ store' = store
       /\ \A w \in DOMAIN inflight, answer \in CompleteAnswers, r \in RandInts, ok \in BOOLEAN :
              (/\ inflight[w].pc = "complete_call"
               /\ ~ok \/ ~get_session_found(store, now, inflight[w].session_id)
               /\ book_hotel_2_finish(w, answer, r, ok))
              => /\ last'.kind = "book_hotel_2"
                 /\ ~last'.success
                 /\ last'.confirmation_number = <<>>]_vars

SpokenKinds == {"search_hotel", "book_hotel_1", "book_hotel_2", "start_over"}

\* C18: no tool invocation lets an exception through to the voice platform:
\* for every function name and every failure of the store, the rate provider
\* or the automation service (and every parameter that makes a handler
\* raise), the handler step has an outcome, and what it returns is a
\* response with a status; for search, select-room, complete-booking and
\* reset it carries a spoken result text.
C18_AlwaysAResponse ==
    /\ last.kind # "none" =>
           /\ last.status_code \in {200, 400, 500}
           /\ last.kind \in SpokenKinds \cup {"unknown"}
           /\ last.kind \in SpokenKinds => last.result # ""
    /\ Len(log) < MaxLog =>
           \A w \in DOMAIN inflight :
               /\ inflight[w].pc = "idle" =>
                      /\ \A payload \in Payloads, params \in SearchParams :
                             ENABLED search_hotel_begin(w, payload, params)
                      /\ \A payload \in Payloads, params \in SelectParams, ok \in BOOLEAN :
                             (~ok \/ ~RoomChoiceParses(params.room_choice))
                             => ENABLED book_hotel_1(w, payload, params, ok)
                      /\ \A payload \in Payloads, params \in BookingParams :
                             ENABLED book_hotel_2(w, payload, params)
               /\ inflight[w].pc = "search_rates" =>
                      \A answer \in RateAnswers, ok \in BOOLEAN : ENABLED search_hotel_rates(w, answer, ok)
               /\ inflight[w].pc = "search_browser" =>
                      \A answer \in SearchAnswers, ok \in BOOLEAN : ENABLED search_hotel_browser(w, answer, ok)
               /\ inflight[w].pc = "select_start" =>
                      \A answer \in StartAnswers : ENABLED book_hotel_1_start(w, answer)
               /\ inflight[w].pc = "complete_call" =>
                      \A answer \in CompleteAnswers, r \in RandInts, ok \in BOOLEAN :
                          ENABLED book_hotel_2_finish(w, answer, r, ok)
    /\ \A params \in ResetParams, payload \in Payloads, ok \in BOOLEAN : ENABLED start_over(params, payload, ok)
    /\ ENABLED unknown_function

\* select-room raised on a room_choice that is no number and answered with
\* the apology of its except clause
C18_Witness ==
    /\ last.kind = "book_hotel_1"
    /\ last.status_code = 500
    /\ last.result = MsgTrouble1
    /\ \A w \in DOMAIN inflight : inflight[w] = Idle

----------------------------------------------------------------------------
(* Properties of the session resolver *)

\* the stored sessions that carry the caller's number and whose id lies in
\* the look-back window of time t
SessionsInWindow(st, t, caller_phone) ==
    {id \in DOMAIN st : /\ st[id].doc.caller_phone = caller_phone
                        /\ id <= t
                        /\ id >= t - 3599}

\* C19: when several stored sessions inside the look-back window carry the
\* caller's number, the resolver (the scan of booking_<now>, booking_<now-1>,
\* ... that stops at the first match) gives the one with the greatest id not
\* later than now: after two searches of one caller in different seconds,
\* select-room and complete-booking act on the session created later.
C19_LatestSessionResolved ==
    [][\A payload \in ClkPayloads :
           LET phone == normalized_caller_phone(payload)
               mine == SessionsInWindow(store, now, phone)
           IN  Cardinality(mine) >= 2 =>
                   /\ scan_first_match(store, now, phone) = << Max(mine) >>
                   /\ \A w \in DOMAIN inflight, params \in ClkSelectParams :
                          book_hotel_1(w, payload, params, TRUE)
                          => /\ last'.success
                             /\ last'.session_id = << Max(mine) >>
                             /\ store'[Max(mine)].doc.step = "room_selected"
                             /\ \A id \in DOMAIN store : id # Max(mine) => store'[id] = store[id]
                   /\ \A w \in DOMAIN inflight :
                          (/\ has_selected_room(store[Max(mine)].doc)
                           /\ book_hotel_2(w, payload, GoodBooking))
                          => inflight'[w].session_id = Max(mine)
                   /\ \A w \in DOMAIN inflight :
                          (/\ ~has_selected_room(store[Max(mine)].doc)
                           /\ book_hotel_2(w, payload, GoodBooking))
                          => last'.result = MsgSelectRoomFirst]_vars

\* two sessions of one caller, created a second apart: the room was selected
\* in the later one and the earlier one still waits for a selection
C19_Witness ==
    \E a \in DOMAIN store, b \in DOMAIN store :
        /\ a < b
        /\ store[a].doc.caller_phone = store[b].doc.caller_phone
        /\ now - a <= 3599
        /\ store[a].doc.step = "search_completed"
        /\ store[b].doc.step = "room_selected"
        /\ last.kind = "book_hotel_1"
        /\ last.session_id = << b >>

\* C20: the resolver finds a caller's session only if its id lies in
\* [now - 3599, now]: a session created 3600 seconds or more before the
\* invocation is not resolved although the store still holds it, and the
\* caller is told to search or start again, with no session changed.
C20_LookBackWindow ==
    [][\A payload \in ClkPayloads :
           LET phone == normalized_caller_phone(payload)
               mine == SessionsInWindow(store, now, phone)
           IN  /\ ResolvedFor(payload) # <<>> =>
                      /\ ResolvedFor(payload)[1] <= now
                      /\ ResolvedFor(payload)[1] >= now - 3599
               /\ mine # {} => ResolvedFor(payload) # <<>>
               /\ mine = {} =>
                      /\ ResolvedFor(payload) = <<>>
                      /\ \A w \in DOMAIN inflight, params \in ClkSelectParams :
                             book_hotel_1(w, payload, params, TRUE)
                             => /\ store' = store
                                /\ log' = log
                                /\ ~last'.success
                                /\ last'.status_code = 400
                                /\ last'.result = MsgNoSession1
                      /\ \A w \in DOMAIN inflight :
                             book_hotel_2(w, payload, GoodBooking)
                             => /\ store' = store
                                /\ log' = log
                                /\ inflight' = inflight
                                /\ ~last'.success
                                /\ last'.status_code = 400
                                /\ last'.result = MsgNoSession2]_vars

\* the caller's session is an hour old and still stored, and select-room
\* answered that no booking session was found
C20_Witness ==
    /\ last.kind = "book_hotel_1"
    /\ last.result = MsgNoSession1
    /\ \E id \in DOMAIN store :
           /\ Live(store, now, id)
           /\ now - id >= 3600
           /\ store[id].doc.caller_phone = PlainPhone
    /\ SessionsInWindow(store, now, PlainPhone) = {}

----------------------------------------------------------------------------
(* Properties of caller isolation and of concurrent invocations *)

C22_NoConcurrentStepAdvance ==
    \A w \in DOMAIN inflight, v \in DOMAIN inflight :
        (/\ w # v
         /\ inflight[w].pc = "complete_call"
         /\ inflight[v].pc = "complete_call")
        => inflight[w].session_id # inflight[v].session_id

\* C23: when two select-room invocations with different valid choices run
\* concurrently for one session, the stored session has step room_selected
\* and its room_choice and selected_room come from one invocation, the one
\* whose update was applied last; the stored pair is never a mix.
C23_LastSelectionWins ==
    [][/\ \A w \in DOMAIN inflight, params \in RaceSelectParams :
              (/\ store' # store
               /\ book_hotel_1(w, Call(PlainPhone), params, TRUE))
              => LET after == store'[ResolvedFor(Call(PlainPhone))[1]].doc
                 IN  /\ after.step = "room_selected"
                     /\ after.room_choice = RoomChoiceOf(params.room_choice)
                     /\ after.selected_room.choice_number = RoomChoiceOf(params.room_choice)
                     /\ after.selected_room = after.room_options[RoomChoiceOf(params.room_choice)]
       /\ \A w \in DOMAIN inflight :
              book_hotel_1_start(w, Raised) => store' = store
       /\ \A id \in DOMAIN store' :
              "selected_room" \in DOMAIN store'[id].doc
              => /\ "room_choice" \in DOMAIN store'[id].doc
                 /\ store'[id].doc.selected_room.choice_number = store'[id].doc.room_choice]_vars

\* two select-room invocations for one session, with choices 1 and 2, both
\* await the automation service; the session holds the pair of one of them
C23_Witness ==
    /\ inflight[1].pc = "select_start"
    /\ inflight[2].pc = "select_start"
    /\ inflight[1].session_id = inflight[2].session_id
    /\ inflight[1].selected_room.choice_number # inflight[2].selected_room.choice_number
    /\ inflight[1].session_id \in DOMAIN store
    /\ store[inflight[1].session_id].doc.step = "room_selected"
    /\ store[inflight[1].session_id].doc.selected_room \in {inflight[1].selected_room, inflight[2].selected_room}

HandleKeys == {"browser_session_id", "browser_customer_id"}
SelectionKeys == {"step", "room_choice", "selected_room"}
CompletionKeys == {"step", "status", "confirmation_number", "guest_info", "payment_info", "completed_at"}

\* every field of doc a outside keys is in doc b with the same value
KeepsOthers(a, b, keys) ==
    \A k \in (DOMAIN a) \ (keys \cup {"updated_at"}) : k \in DOMAIN b /\ b[k] = a[k]

\* C24: updates of the session store lose no update: when two updates of
\* one session with disjoint field sets run concurrently (search writing
\* the browser handles, select-room writing step and selected_room), the
\* document holds the fields of both.
C24_NoLostUpdate ==
    [][/\ \A w \in DOMAIN inflight, answer \in RaceSearchAnswers :
              (/\ inflight[w].pc = "search_browser"
               /\ inflight[w].session_id \in DOMAIN store
               /\ search_hotel_browser(w, answer, TRUE))
              => LET before == store[inflight[w].session_id].doc
                     after == store'[inflight[w].session_id].doc
                 IN  /\ KeepsOthers(before, after, HandleKeys)
                     /\ handshake_succeeded(answer)
                            => /\ after.browser_session_id = answer.sessionId
                               /\ after.browser_customer_id = answer.customerId
       /\ \A w \in DOMAIN inflight, params \in RaceSelectParams :
              (/\ store' # store
               /\ book_hotel_1(w, Call(PlainPhone), params, TRUE))
              => LET id == ResolvedFor(Call(PlainPhone))[1]
                 IN  /\ KeepsOthers(store[id].doc, store'[id].doc, SelectionKeys)
                     /\ store'[id].doc.room_choice = RoomChoiceOf(params.room_choice)
       /\ \A w \in DOMAIN inflight :
              (/\ inflight[w].pc = "complete_call"
               /\ inflight[w].session_id \in DOMAIN store
               /\ book_hotel_2_finish(w, Answered(200, TRUE, "", "", HotelConfirmation), RandLow, TRUE))
              => LET id == inflight[w].session_id
                 IN  /\ KeepsOthers(store[id].doc, store'[id].doc, CompletionKeys)
                     /\ store'[id].doc.confirmation_number = HotelConfirmation]_vars

\* the room was selected while the search awaited the handshake (nothing
\* was sent to /book/start), and the session holds the selection and the
\* handles written afterwards
C24_Witness ==
    \E id \in DOMAIN store :
        /\ "selected_room" \in DOMAIN store[id].doc
        /\ "browser_session_id" \in DOMAIN store[id].doc
        /\ store[id].doc.browser_session_id = "bs1"
        /\ store[id].doc.step = "room_selected"
        /\ \A i \in 1..Len(log) : log[i].url # "/book/start"
        /\ \A w \in DOMAIN inflight : inflight[w] = Idle

\* C25: a browser handle pair obtained by one search is never stored in, or
\* sent on behalf of, a booking session other than the one that search
\* created: when a search stores its handles, the session is still the one
\* it created (no other search is in flight for that session id, and the
\* session holds no handles of another search), and every request that
\* carries handles carries those of the session it is sent for.
C25_HandlesStayWithTheirSearch ==
    [][/\ \A w \in DOMAIN inflight, answer \in RaceSearchAnswers :
              (/\ inflight[w].pc = "search_browser"
               /\ inflight[w].session_id \in DOMAIN store
               /\ handshake_succeeded(answer)
               /\ search_hotel_browser(w, answer, TRUE))
              => /\ ~HasHandles(store[inflight[w].session_id].doc)
                 /\ \A v \in DOMAIN inflight :
                        (v # w /\ inflight[v].pc \in {"search_rates", "search_browser"})
                        => (inflight[v].pc = "search_browser"
                            => inflight[v].session_id # inflight[w].session_id)
       /\ Len(log') = Len(log) + 1
              => (log'[Len(log')].sessionId # ""
                  => /\ log'[Len(log')].booking \in DOMAIN store
                     /\ log'[Len(log')].sessionId = store[log'[Len(log')].booking].doc.browser_session_id
                     /\ log'[Len(log')].customerId = store[log'[Len(log')].booking].doc.browser_customer_id)]_vars

----------------------------------------------------------------------------
(* Properties of the session store *)

UpdateSamples ==
    {[step |-> "room_selected", room_choice |-> 2],
     [browser_session_id |-> "bs9", browser_customer_id |-> "cu9"],
     [step |-> "booking_completed", status |-> "completed", confirmation_number |-> HotelConfirmation]}

\* ids tried against the store: the stored ones and two that are not stored
ProbedIds == (DOMAIN store) \cup {now + 1, now + 2}

\* C26: update(session_id, fields) returns false and creates nothing when
\* the session is absent; when it is present it returns true, sets exactly
\* the given fields, refreshes updated_at and leaves every other field as
\* it was.
C26_UpdateFrame ==
    \A id \in ProbedIds, updates \in UpdateSamples :
        LET r == update_session(store, now, id, updates, TRUE)
        IN  IF id \notin DOMAIN store
            THEN ~r.result /\ r.store = store
            ELSE /\ r.result
                 /\ DOMAIN r.store = DOMAIN store
                 /\ \A k \in (DOMAIN store) \ {id} : r.store[k] = store[k]
                 /\ LET before == store[id].doc
                        after == r.store[id].doc
                    IN  /\ DOMAIN after = (DOMAIN before) \cup (DOMAIN updates)
                        /\ \A k \in DOMAIN updates : after[k] = updates[k]
                        /\ after.updated_at = now
                        /\ KeepsOthers(before, after, DOMAIN updates)

\* a session updated by select-room later than it was created: created_at,
\* the caller and the options are the search's, updated_at is the update's
C26_Witness ==
    \E id \in DOMAIN store :
        /\ store[id].doc.step = "room_selected"
        /\ store[id].doc.created_at = id
        /\ store[id].doc.updated_at > store[id].doc.created_at
        /\ store[id].doc.caller_phone = PlainPhone
        /\ Len(store[id].doc.room_options) = 2

CreateSamples ==
    {<<>>,
     [status |-> "paused"],
     [step |-> "search_completed", caller_phone |-> PlainPhone, room_options |-> <<>>]}

DefaultKeys == {"session_id", "created_at", "updated_at", "status", "step"}

\* C27: the store is a register per key: get returns the document of the
\* most recent successful create or update; create on an existing key
\* replaces the whole document and returns true; the fields given to create
\* override the defaults step = 'initial' and status = 'active'; after
\* delete the key is absent; delete returns true if the key existed and
\* false otherwise.
C27_RegisterPerKey ==
    \A id \in ProbedIds :
        /\ \A data \in CreateSamples :
               LET c == create_session(store, now, id, data, TRUE)
                   doc == get_session(c.store, now, id)
               IN  /\ c.result
                   /\ get_session_found(c.store, now, id)
                   /\ DOMAIN doc = DefaultKeys \cup (DOMAIN data)
                   /\ \A k \in DOMAIN data : doc[k] = data[k]
                   /\ doc.session_id = id /\ doc.created_at = now /\ doc.updated_at = now
                   /\ "step" \notin DOMAIN data => doc.step = "initial"
                   /\ "status" \notin DOMAIN data => doc.status = "active"
                   /\ \A k \in (DOMAIN store) \ {id} : c.store[k] = store[k]
                   /\ \A updates \in UpdateSamples :
                          LET u == update_session(c.store, now, id, updates, TRUE)
                          IN  get_session(u.store, now, id)
                                  = Merge(Merge(doc, updates), [updated_at |-> now])
        /\ LET r == delete_session(store, now, id)
           IN  /\ r.result = (id \in DOMAIN store)
               /\ ~get_session_found(r.store, now, id)
               /\ ~delete_session(r.store, now, id).result
               /\ \A k \in (DOMAIN store) \ {id} : r.store[k] = store[k]
        /\ id \in DOMAIN store
               => /\ get_session_found(store, now, id)
                  /\ get_session(store, now, id).session_id = id

\* a second search of the same second created the session again over the
\* one whose booking had been sent: nothing of the selection is left
C27_Witness ==
    \E i \in 1..Len(log), j \in 1..Len(log) :
        /\ i < j
        /\ log[i].url = "/book/full"
        /\ log[j].url = "/book/search"
        /\ log[i].booking = log[j].booking
        /\ log[j].booking \in DOMAIN store
        /\ store[log[j].booking].doc.step = "search_completed"
        /\ "selected_room" \notin DOMAIN store[log[j].booking].doc

\* a stored session is absent to every operation and to the resolver
AbsentAt(st, t, id, caller_phone) ==
    /\ ~get_session_found(st, t, id)
    /\ ~update_session(st, t, id, [step |-> "room_selected"], TRUE).result
    /\ update_session(st, t, id, [step |-> "room_selected"], TRUE).store = st
    /\ ~delete_session(st, t, id).result
    /\ find_session_id(st, t, caller_phone) # << id >>

\* C28: a session lives 24 hours from its most recent successful create or
\* update: every update sets the time-to-live to the full 24 hours again,
\* and once that time has passed without a write the session is absent to
\* get, update, delete and the resolver.
C28_Lifetime ==
    [][/\ \A id \in DOMAIN store' :
              store'[id].expires_at = store'[id].doc.updated_at + SessionTTL
       /\ \A id \in DOMAIN store' :
              (id \notin DOMAIN store \/ store'[id] # store[id])
              => store'[id].expires_at = now' + SessionTTL
       /\ now' # now
              => \A id \in DOMAIN store :
                     IF now' - store[id].doc.updated_at >= SessionTTL
                     THEN AbsentAt(store', now', id, store[id].doc.caller_phone)
                     ELSE /\ id \in DOMAIN store'
                          /\ store'[id] = store[id]
                          /\ get_session_found(store', now', id)
                          /\ update_session(store', now', id, [step |-> "room_selected"], TRUE).result]_vars

\* the handshake answered a second after the search created the session:
\* the update moved the end of the lifetime by that second
C28_Witness ==
    \E id \in DOMAIN store :
        /\ store[id].doc.updated_at = store[id].doc.created_at + 1
        /\ store[id].expires_at = store[id].doc.created_at + SessionTTL + 1
        /\ HasHandles(store[id].doc)

\* C29: once a session exists, no select-room, complete-booking or handle
\* update changes its room_options or its caller number: only a search
\* that creates the session again writes them.
C29_OptionsAndCallerFixed ==
    [][\A id \in (DOMAIN store) \cap (DOMAIN store') :
           (\/ store'[id].doc.room_options # store[id].doc.room_options
            \/ store'[id].doc.caller_phone # store[id].doc.caller_phone)
           => /\ SearchRates
              /\ \E w \in DOMAIN inflight : inflight[w].pc = "search_rates" /\ inflight'[w].pc # "search_rates"
              /\ store'[id].doc.step = "search_completed"
              /\ store'[id].doc.created_at = now]_vars

\* a session taken through the handle update, select-room and
\* complete-booking with the three options and the caller of its search
C29_Witness ==
    \E id \in DOMAIN store :
        /\ store[id].doc.step = "booking_completed"
        /\ HasHandles(store[id].doc)
        /\ Len(store[id].doc.room_options) = 3
        /\ store[id].doc.room_choice = 2
        /\ store[id].doc.caller_phone = PlainPhone

\* C30: in every stored session, selected_room, when set, is the entry of
\* that session's room_options whose choice_number is the stored
\* room_choice.
C30_SelectedRoomIsTheChosenOption ==
    \A id \in DOMAIN store :
        "selected_room" \in DOMAIN store[id].doc
        => /\ "room_choice" \in DOMAIN store[id].doc
           /\ \E i \in 1..Len(store[id].doc.room_options) :
                  /\ store[id].doc.room_options[i].choice_number = store[id].doc.room_choice
                  /\ store[id].doc.selected_room = store[id].doc.room_options[i]

\* the second of three options is selected
C30_Witness ==
    \E id \in DOMAIN store :
        /\ "selected_room" \in DOMAIN store[id].doc
        /\ store[id].doc.room_choice = 2
        /\ Len(store[id].doc.room_options) = 3
        /\ store[id].doc.selected_room = store[id].doc.room_options[2]

----------------------------------------------------------------------------
(* Properties of the guest and payment checks *)

\* the checks of the claim, numbered in its order, that the data violate
ViolatedChecks(params, phone, td) ==
    {k \in 1..8 :
        \/ k = 1 /\ (\/ "" \in {params.first_name, params.last_name, params.address,
                                params.zip_code, params.city, params.state, params.country}
                     \/ params.email = <<>>
                     \/ phone = <<>>)
        \/ k = 2 /\ (\/ Remove(params.card_number, {" ", "-"}) = <<>>
                     \/ params.expiry_month.v = <<>>
                     \/ params.expiry_year.v = <<>>
                     \/ params.cvv.v = <<>>
                     \/ params.cardholder_name = "")
        \/ k = 3 /\ ~email_matches(params.email)
        \/ k = 4 /\ Len(DigitsOf(phone)) < 10
        \/ k = 5 /\ Len(DigitsOf(params.card_number)) \notin 13..19
        \/ k = 6 /\ DecimalValue(params.expiry_month.v) \notin 1..12
        \/ k = 7 /\ DecimalValue(params.expiry_year.v) * 12 + DecimalValue(params.expiry_month.v)
                        < td.year * 12 + td.month
        \/ k = 8 /\ Len(DigitsOf(params.cvv.v)) \notin {3, 4}}

CheckMessage ==
    << MsgMissingGuest, MsgMissingPayment, MsgEmail, MsgPhone, MsgCard, MsgMonth, MsgExpired, MsgCvv >>

\* C31: the checks of complete-booking are applied in a fixed order and
\* stop at the first failure (guest fields, payment fields, email, phone,
\* card number, expiry month, card not expired, CVV): data that violate
\* several checks are answered with the message of the earliest of them,
\* and data that violate none are sent on to the automation service.
C31_ChecksInOrder ==
    [][\A w \in DOMAIN inflight, payload \in PayPayloads, params \in OrderParams :
           (/\ inflight[w] = Idle
            /\ last'.kind = "book_hotel_2" \/ inflight'[w] # Idle
            /\ store' = store
            /\ ResolvedFor(payload) # <<>>
            /\ has_selected_room(ResolvedDoc(payload))
            /\ book_hotel_2(w, payload, params))
           => LET v == ViolatedChecks(params, ResolvedDoc(payload).caller_phone, today)
              IN  IF v = {}
                  THEN inflight'[w].pc = "complete_call" /\ last' = last
                  ELSE /\ last'.kind = "book_hotel_2"
                       /\ last'.result = CheckMessage[Min(v)]
                       /\ last'.status_code = 400
                       /\ ~last'.success
                       /\ inflight' = inflight
                       /\ log' = log]_vars

\* a caller with a seven-digit number was asked for a valid phone number:
\* whatever else was wrong with the card, the phone came first
C31_Witness ==
    /\ last.kind = "book_hotel_2"
    /\ last.result = MsgPhone
    /\ \E id \in DOMAIN store :
           /\ store[id].doc.caller_phone = ShortPhone
           /\ store[id].doc.step = "room_selected"

\* int() accepts the value (JSON number or digits)
ExpiryNumeric(j) ==
    j.t = "int" \/ (j.v # <<>> /\ \A i \in 1..Len(j.v) : j.v[i] \in Digits)
ExpiryValue(j) == IF j.t = "int" THEN j.v ELSE DecimalValue(j.v)

\* C32: the expiry check rejects a card exactly when (expiry_year,
\* expiry_month) is strictly before the current (year, month): the current
\* month is accepted, an earlier month of the year or an earlier year is
\* rejected, and a month or year that is no number is answered with a
\* corrective response, not an exception.
C32_ExpiryCheck ==
    [][\A w \in DOMAIN inflight, params \in ExpiryParams :
           (/\ inflight[w] = Idle
            /\ last'.kind = "book_hotel_2" \/ inflight'[w] # Idle
            /\ store' = store
            /\ ResolvedFor(Call(PlainPhone)) # <<>>
            /\ has_selected_room(ResolvedDoc(Call(PlainPhone)))
            /\ book_hotel_2(w, Call(PlainPhone), params))
           => IF ~ExpiryNumeric(params.expiry_month) \/ ~ExpiryNumeric(params.expiry_year)
              THEN /\ last'.kind = "book_hotel_2"
                   /\ last'.status_code = 400
                   /\ last'.result = MsgExpiryParse
                   /\ inflight' = inflight
              ELSE IF ExpiryValue(params.expiry_year) * 12 + ExpiryValue(params.expiry_month)
                          < today.year * 12 + today.month
              THEN /\ last'.kind = "book_hotel_2"
                   /\ last'.status_code = 400
                   /\ last'.result = MsgExpired
                   /\ inflight' = inflight
              ELSE \/ inflight'[w].pc = "complete_call"
                   \/ /\ params.expiry_month.t = "int"
                      /\ last'.result \notin ValidationMessages]_vars

\* in June 2026 a card that expires in June 2026 was taken and the booking
\* completed, and a later one was refused as expired
C32_Witness ==
    /\ today = [year |-> 2026, month |-> 6]
    /\ last.kind = "book_hotel_2"
    /\ last.result = MsgExpired
    /\ \E id \in DOMAIN store :
           /\ store[id].doc.step = "booking_completed"
           /\ store[id].doc.payment_info.expiry_month = <<"0", "6">>
           /\ store[id].doc.payment_info.expiry_year.t = "str"
           /\ store[id].doc.payment_info.expiry_year.v = <<"2", "0", "2", "6">>

----------------------------------------------------------------------------
(* Properties of sessions under searches of the same second and under
   interleaved invocations *)

\* C33: a search that succeeded for caller A leaves A with its own session:
\* the search of another caller, also one created in the same clock
\* second, leaves the session that a select-room from A resolves, and its
\* room_options, as they were.
C33_OwnSessionPerCaller ==
    [][\A w \in DOMAIN inflight, A \in {PlainPhone, OtherPhone} :
           (/\ inflight[w].pc = "search_rates"
            /\ inflight'[w].pc = "search_browser"
            /\ DigitsOf(inflight[w].caller_phone) # A
            /\ find_session_id(store, now, A) # <<>>)
           => /\ find_session_id(store', now', A) = find_session_id(store, now, A)
              /\ store'[find_session_id(store, now, A)[1]].doc.room_options
                     = store[find_session_id(store, now, A)[1]].doc.room_options]_vars

BookingUrls == {"/book/complete", "/book/full"}

\* C34: whenever complete-booking sends /book/complete with the browser
\* handles of a session, a /book/start request with the same handles and
\* the same room was sent earlier for that session, also when select-room
\* ran while the search that created the session awaited the handshake.
C34_StartBeforeComplete ==
    \A j \in 1..Len(log) :
        log[j].url = "/book/complete"
        => \E i \in 1..(j - 1) :
               /\ log[i].url = "/book/start"
               /\ log[i].booking = log[j].booking
               /\ log[i].sessionId = log[j].sessionId
               /\ log[i].customerId = log[j].customerId
               /\ log[i].rateCode = log[j].rateCode
               /\ log[i].roomCode = log[j].roomCode

\* the latest booking request sent for a session
LatestBookingCall(id) ==
    LET sent == {i \in 1..Len(log) : log[i].url \in BookingUrls /\ log[i].booking = id}
    IN  IF sent = {} THEN <<>> ELSE << log[Max(sent)] >>

\* C35: for every session in booking_completed, the room that
\* complete-booking sent to the automation service is the stored
\* selected_room, also when a select-room for the session runs while
\* complete-booking awaits the service.
C35_BookedRoomIsStoredRoom ==
    \A id \in DOMAIN store :
        (store[id].doc.step = "booking_completed" /\ LatestBookingCall(id) # <<>>)
        => /\ LatestBookingCall(id)[1].rateCode = rate_data_of(store[id].doc).code
           /\ LatestBookingCall(id)[1].roomCode = rate_data_of(store[id].doc).roomCode

\* C36: for every booking session the booking request (/book/complete or
\* /book/full) is sent at most once, whatever the sequence or interleaving
\* of complete-booking invocations with valid data: two booking requests
\* for one session id are separated by a search that created the session
\* anew.
C36_BookedAtMostOnce ==
    \A i \in 1..Len(log), j \in 1..Len(log) :
        (/\ i < j
         /\ log[i].url \in BookingUrls
         /\ log[j].url \in BookingUrls
         /\ log[i].booking = log[j].booking)
        => \E k \in (i + 1)..(j - 1) :
               log[k].url = "/book/search" /\ log[k].booking = log[i].booking

\* C37: a session deleted by reset is not brought back by an invocation
\* that was in flight: the write after the await of a search, a select-room
\* or a complete-booking that finds the session gone creates nothing, and
\* such a complete-booking does not report the booking as completed.
C37_DeletedStaysDeleted ==
    [][\A w \in DOMAIN inflight :
           (/\ inflight[w].pc \in {"search_browser", "select_start", "complete_call"}
            /\ inflight'[w] = Idle
            /\ inflight[w].session_id \notin DOMAIN store)
           => /\ inflight[w].session_id \notin DOMAIN store'
              /\ inflight[w].pc = "complete_call" => ~last'.success]_vars

\* C38: in every reachable state the stored fields of a session agree with
\* its step: selected_room is set iff the step is room_selected or
\* booking_completed, and confirmation_number, guest_info, payment_info and
\* status 'completed' are set iff the step is booking_completed.
C38_FieldsAgreeWithStep ==
    \A id \in DOMAIN store :
        LET doc == store[id].doc
        IN  /\ "selected_room" \in DOMAIN doc
                   <=> doc.step \in {"room_selected", "booking_completed"}
            /\ \A k \in {"confirmation_number", "guest_info", "payment_info"} :
                   k \in DOMAIN doc <=> doc.step = "booking_completed"
            /\ doc.status = "completed" <=> doc.step = "booking_completed"

\* C39: every tool invocation returns a response in the end, provided each
\* awaited rate-provider or automation call comes back: no handler retries
\* a call or waits for another invocation.
C39_EveryInvocationReturns ==
    \A w \in RaceSlots : (inflight[w] # Idle) ~> (inflight[w] = Idle)

\* two invocations await the automation service at once, a select-room and
\* a complete-booking
C39_Witness ==
    \E w \in RaceSlots, v \in RaceSlots :
        inflight[w].pc = "select_start" /\ inflight[v].pc = "complete_call"

====
